---- MODULE Spec2Model ----
(***************************************************************************)
(* Model of the Concordium "exact" scheme facilitator of x402:             *)
(*   - ExactConcordiumScheme.verify / settle        (V2 facilitator)       *)
(*   - ExactConcordiumSchemeV1.verify / settle      (V1 facilitator)       *)
(*   - createConcordiumNodeClient: getTransactionStatus,                   *)
(*     waitForFinalization, pollForFinalization, mapTransactionStatus      *)
(*                                                                         *)
(* JavaScript strings that the code inspects (addresses, amounts, asset    *)
(* identifiers) are sequences of one-character strings, so that            *)
(* toLowerCase, truthiness and BigInt parsing are computed, not assumed.   *)
(* An absent (undefined) field is the value Undefined.                     *)
(***************************************************************************)
EXTENDS Integers, Sequences, FiniteSets, TLC

VARIABLES
    payload,        \* PaymentPayload: accepted.scheme, accepted.network, payload.{txHash, sender}
    requirements,   \* PaymentRequirements: scheme, network, payTo, amount, asset
    config,         \* Required<ExactConcordiumSchemeConfig> (without the node client)
    pc,             \* position of the call in flight (the await it is suspended at)
    op,             \* operation called: "none", "verify", "settle", "waitForFinalization"
    version,        \* facilitator answering the call: 2 (ExactConcordiumScheme) or 1 (V1)
    lookup,         \* what nodeClient.getTransactionStatus answered to verify
    waited,         \* what nodeClient.waitForFinalization answered
    outcome,        \* VerifyResponse / SettleResponse handed to the caller (or the fault)
    waiterPlan,     \* mock node client: what its waitForFinalization answers when called
    calls,          \* node-client methods called, and push waits called on the gRPC client
    grpc,           \* gRPC client under createConcordiumNodeClient: offers the push wait?
    chain,          \* the node's BlockItemStatus for the transaction (or no record)
    now,            \* Date.now() in ms
    startTime,      \* pollForFinalization's startTime
    seen,           \* lifecycle states the lookups of the call in flight have reported
    errors,         \* transport errors the lookups of the call in flight have met
    waitEnd,        \* how the polling wait ended: cause and ms elapsed since startTime
    history,        \* the ledger before the first call, then each returned call in order
    other,          \* the locals of a second call in flight, suspended at an await
    assets,         \* server scheme: Map<"network:SYMBOL", ConcordiumAssetInfo>, in insertion order
    args            \* arguments of the server, payment-check or asset-string call made last

facilitatorVars == <<payload, requirements, config, pc, op, version, lookup, waited, outcome>>
mockVars == <<waiterPlan, calls>>
nodeVars == <<grpc, chain, now, startTime, seen, errors, waitEnd>>
serverVars == <<assets, args>>
vars == <<facilitatorVars, mockVars, nodeVars, history, other, serverVars>>

----------------------------------------------------------------------------
(* Values *)

Undefined == <<"undefined">>

\* JavaScript truthiness of an optional string: undefined and "" are falsy.
Truthy(s) == s # Undefined /\ s # <<>>

\* a || ""
OrEmpty(s) == IF Truthy(s) THEN s ELSE <<>>

LowerChar(c) ==
    CASE c = "A" -> "a"
      [] c = "B" -> "b"
      [] c = "C" -> "c"
      [] c = "D" -> "d"
      [] c = "E" -> "e"
      [] c = "N" -> "n"
      [] c = "U" -> "u"
      [] OTHER   -> c

toLowerCase(s) == [i \in DOMAIN s |-> LowerChar(s[i])]

Digits == {"0", "1", "2", "3", "4", "5", "6", "7", "8", "9"}

DigitVal(c) ==
    CASE c = "0" -> 0 [] c = "1" -> 1 [] c = "2" -> 2 [] c = "3" -> 3
      [] c = "4" -> 4 [] c = "5" -> 5 [] c = "6" -> 6 [] c = "7" -> 7
      [] c = "8" -> 8 [] c = "9" -> 9

RECURSIVE DecimalValue(_)
DecimalValue(s) ==
    IF s = <<>> THEN 0
    ELSE 10 * DecimalValue(SubSeq(s, 1, Len(s) - 1)) + DigitVal(s[Len(s)])

\* BigInt(string): the value of a string of decimal digits (the empty string is 0n);
\* a SyntaxError for a string holding any other character of the model's alphabet.
BigInt(s) ==
    IF \A i \in DOMAIN s : s[i] \in Digits
    THEN [ok |-> TRUE, val |-> DecimalValue(s)]
    ELSE [ok |-> FALSE, val |-> 0]

----------------------------------------------------------------------------
(* Bounds and input sets *)

MaxAmountLen == 2

AmountChars == {"1", "2", "."}

RECURSIVE StringsOfLen(_, _)
StringsOfLen(chars, n) ==
    IF n = 0 THEN {<<>>}
    ELSE {Append(s, c) : s \in StringsOfLen(chars, n - 1), c \in chars}

StringsUpTo(chars, n) == UNION {StringsOfLen(chars, k) : k \in 0..n}

\* amounts a ledger snapshot may carry (absent, empty, decimal, not decimal)
SnapshotAmounts == {Undefined} \cup StringsUpTo(AmountChars, MaxAmountLen)

\* amounts a requirement may ask for
RequiredAmounts == {<<"2">>, <<"1", "1">>, <<"1", ".">>}

Alice == <<"A", "b">>
AliceLower == <<"a", "b">>
Carol == <<"C", "d">>
CarolLower == <<"c", "d">>

PayloadSenders == {Alice}
PayTos == {Carol}
SnapshotSenders == {<<>>, AliceLower, CarolLower}
SnapshotRecipients == {Undefined, CarolLower, AliceLower}

TokenA == <<"9", ":", "0">>
TokenB == <<"7", ":", "0">>
RequiredAssets == {Undefined, <<>>, TokenA}
SnapshotAssets == {Undefined, <<>>, TokenA, TokenB}

Schemes == {"exact", "other"}
Networks == {"ccd:testnet", "ccd:mainnet"}
Statuses == {"pending", "committed", "finalized", "failed"}

TxHashes == {"tx1"}

Payloads ==
    [scheme : Schemes, network : Networks, txHash : TxHashes, sender : PayloadSenders]

Requirements ==
    [scheme : Schemes, network : {"ccd:testnet"}, payTo : PayTos,
     amount : RequiredAmounts, asset : RequiredAssets]

TxInfos ==
    [status : Statuses, sender : SnapshotSenders, recipient : SnapshotRecipients,
     amount : SnapshotAmounts, asset : SnapshotAssets, error : {Undefined}]

NoInfo ==
    [status |-> "none", sender |-> <<>>, recipient |-> Undefined,
     amount |-> Undefined, asset |-> Undefined, error |-> Undefined]

\* answers of nodeClient.getTransactionStatus: a rejection, null, or a snapshot
Threw == [kind |-> "throw", info |-> NoInfo]
Null == [kind |-> "null", info |-> NoInfo]
Info(i) == [kind |-> "info", info |-> i]
NotCalled == [kind |-> "none", info |-> NoInfo]

LookupAnswers == {Threw, Null} \cup {Info(i) : i \in TxInfos}

----------------------------------------------------------------------------
(* ExactConcordiumScheme.verify (V2) *)

\* a failure response built without the payer
InvalidWithoutPayer(reason, p) ==
    [kind |-> "return", isValid |-> FALSE, invalidReason |-> reason, payer |-> <<>>]

Invalid(reason, p) ==
    [kind |-> "return", isValid |-> FALSE, invalidReason |-> reason, payer |-> p.sender]

Valid(p) ==
    [kind |-> "return", isValid |-> TRUE, invalidReason |-> "undefined", payer |-> p.sender]

\* no call has returned yet
NoOutcome ==
    [kind |-> "none", isValid |-> FALSE, invalidReason |-> "undefined", payer |-> <<>>]

\* an exception leaving the async function: the returned promise rejects
Rejected(p) ==
    [kind |-> "throw", isValid |-> FALSE, invalidReason |-> "undefined", payer |-> p.sender]

\* the failure check testing for a status the node client never reports
StatusFailedMisspelt(txInfo) == txInfo.status = "rejected"

\* txInfo.status === "failed"
StatusFailed(txInfo) == txInfo.status = "failed"

\* the sender comparison without toLowerCase
SenderMismatchCaseSensitive(txInfo, p) ==
    Truthy(txInfo.sender) /\ txInfo.sender # p.sender

SenderMismatch(txInfo, p) ==
    Truthy(txInfo.sender) /\ toLowerCase(txInfo.sender) # toLowerCase(p.sender)

\* the recipient comparison with a snapshot lacking the recipient turned away
RecipientMismatchOrAbsent(txInfo, payTo) ==
    ~Truthy(txInfo.recipient) \/ toLowerCase(txInfo.recipient) # toLowerCase(payTo)

RecipientMismatch(txInfo, payTo) ==
    Truthy(txInfo.recipient) /\ toLowerCase(txInfo.recipient) # toLowerCase(payTo)

\* the comparison with <= in place of <: an exact payment would be rejected
AmountLessOrEqual(actual, required) == BigInt(actual).val <= BigInt(required).val

\* BigInt(txInfo.amount) < BigInt(requirements.amount)
AmountLess(actual, required) == BigInt(actual).val < BigInt(required).val

\* either BigInt conversion raises a SyntaxError
AmountThrows(actual, required) == ~BigInt(actual).ok \/ ~BigInt(required).ok

\* the amount check with a missing amount rejected instead of skipped
AmountInsufficientOrAbsent(actual, required) ==
    ~Truthy(actual) \/ AmountLess(actual, required)

\* V2: if (txInfo.amount) { if (BigInt(txInfo.amount) < BigInt(requirements.amount)) ...
AmountInsufficient(actual, required) ==
    Truthy(actual) /\ AmountLess(actual, required)

\* the V1 amount check left out
AmountNeverInsufficient(actual, required) == FALSE

\* V1: !txInfo.amount || BigInt(txInfo.amount) < BigInt(requirementsV1.maxAmountRequired)
AmountInsufficientV1(actual, required) ==
    ~Truthy(actual) \/ AmountLess(actual, required)

verify(p, r, answer, cfg) ==
    IF p.scheme # "exact" \/ r.scheme # "exact" THEN Invalid("unsupported_scheme", p)
    ELSE IF p.network # r.network THEN Invalid("network_mismatch", p)
    ELSE IF answer.kind = "throw" THEN Invalid("transaction_lookup_failed", p)
    ELSE IF answer.kind = "null" THEN Invalid("transaction_not_found", p)
    ELSE LET txInfo == answer.info IN
    IF StatusFailed(txInfo) THEN Invalid("transaction_failed", p)
    ELSE IF txInfo.status = "pending" THEN Invalid("transaction_pending", p)
    ELSE IF cfg.requireFinalization /\ txInfo.status # "finalized"
        THEN Invalid("transaction_not_finalized", p)
    ELSE IF SenderMismatch(txInfo, p) THEN Invalid("sender_mismatch", p)
    ELSE IF RecipientMismatch(txInfo, r.payTo) THEN Invalid("recipient_mismatch", p)
    ELSE IF Truthy(txInfo.amount) /\ AmountThrows(txInfo.amount, r.amount) THEN Rejected(p)
    ELSE IF AmountInsufficient(txInfo.amount, r.amount)
        THEN Invalid("insufficient_amount", p)
    ELSE IF txInfo.asset # Undefined /\ OrEmpty(r.asset) # OrEmpty(txInfo.asset)
        THEN Invalid("asset_mismatch", p)
    ELSE Valid(p)

(* ExactConcordiumSchemeV1.verify *)
verifyV1(p, r, answer, cfg) ==
    IF p.scheme # "exact" \/ r.scheme # "exact" THEN Invalid("unsupported_scheme", p)
    ELSE IF p.network # r.network THEN Invalid("network_mismatch", p)
    ELSE IF answer.kind = "throw" THEN Invalid("transaction_lookup_failed", p)
    ELSE IF answer.kind = "null" THEN Invalid("transaction_not_found", p)
    ELSE LET txInfo == answer.info IN
    IF StatusFailed(txInfo) THEN Invalid("transaction_failed", p)
    ELSE IF txInfo.status = "pending" THEN Invalid("transaction_pending", p)
    ELSE IF cfg.requireFinalization /\ txInfo.status # "finalized"
        THEN Invalid("transaction_not_finalized", p)
    ELSE IF SenderMismatch(txInfo, p) THEN Invalid("sender_mismatch", p)
    ELSE IF RecipientMismatch(txInfo, r.payTo) THEN Invalid("recipient_mismatch", p)
    ELSE IF Truthy(txInfo.amount) /\ AmountThrows(txInfo.amount, r.amount) THEN Rejected(p)
    ELSE IF AmountInsufficientV1(txInfo.amount, r.amount)
        THEN Invalid("insufficient_amount", p)
    ELSE IF OrEmpty(r.asset) # OrEmpty(txInfo.asset) THEN Invalid("asset_mismatch", p)
    ELSE Valid(p)

----------------------------------------------------------------------------
(* Specification Spec: one verify call of either facilitator against a node    *)
(* client that may answer the lookup with anything.                            *)

Configs == [requireFinalization : BOOLEAN, finalizationTimeoutMs : {60000}]

NoChain == [status |-> "null", summary |-> "none", body |-> "plain"]

NoWaitEnd == [cause |-> "none", elapsed |-> 0]

\* no second call is in flight
NoOther == [id |-> 0]

\* private assets = new Map(): no key is set
NoAssets == <<>>

\* no server, payment-check or asset-string call has been made
NoArgs == <<>>

\* the gRPC-backed node client is not part of this specification
NodeUnused ==
    /\ grpc = [hasPush |-> FALSE]
    /\ chain = NoChain
    /\ now = 0
    /\ startTime = 0
    /\ seen = {}
    /\ errors = 0
    /\ waitEnd = NoWaitEnd

Init ==
    /\ payload \in Payloads
    /\ requirements \in Requirements
    /\ config \in Configs
    /\ pc = "idle"
    /\ op = "none"
    /\ version = 0
    /\ lookup = NotCalled
    /\ waited = NotCalled
    /\ outcome = NoOutcome
    /\ waiterPlan = NotCalled
    /\ calls = <<>>
    /\ history = <<>>
    /\ other = NoOther
    /\ assets = NoAssets
    /\ args = NoArgs
    /\ NodeUnused

\* a verify that takes the payload's block hash, when given, in place of a lookup
AsksLedgerUnlessHinted(p, r) ==
    p.scheme = "exact" /\ r.scheme = "exact" /\ p.network = r.network
      /\ p.blockHash = Undefined

\* the scheme and network checks return before the node client is asked
AsksLedger(p, r) == p.scheme = "exact" /\ r.scheme = "exact" /\ p.network = r.network

\* the lookup made before the scheme and network checks
LookupCallFirst(p, r) ==
    <<[fn |-> "getTransactionStatus", txHash |-> p.txHash, timeoutMs |-> 0]>>

\* the call verify makes on the node client
LookupCall(p, r) ==
    IF AsksLedger(p, r)
    THEN <<[fn |-> "getTransactionStatus", txHash |-> p.txHash, timeoutMs |-> 0]>>
    ELSE <<>>

VerifyV2 ==
    /\ pc = "idle"
    /\ \E answer \in LookupAnswers :
        /\ lookup' = IF AsksLedger(payload, requirements) THEN answer ELSE NotCalled
        /\ outcome' = verify(payload, requirements, answer, config)
    /\ pc' = "done"
    /\ op' = "verify"
    /\ version' = 2
    /\ calls' = LookupCall(payload, requirements)
    /\ UNCHANGED <<payload, requirements, config, waited, waiterPlan, history, other, serverVars, nodeVars>>

VerifyV1 ==
    /\ pc = "idle"
    /\ \E answer \in LookupAnswers :
        /\ lookup' = IF AsksLedger(payload, requirements) THEN answer ELSE NotCalled
        /\ outcome' = verifyV1(payload, requirements, answer, config)
    /\ pc' = "done"
    /\ op' = "verify"
    /\ version' = 1
    /\ calls' = LookupCall(payload, requirements)
    /\ UNCHANGED <<payload, requirements, config, waited, waiterPlan, history, other, serverVars, nodeVars>>

Next == VerifyV2 \/ VerifyV1

Spec == Init /\ [][Next]_vars

----------------------------------------------------------------------------
(* ExactConcordiumScheme.settle / ExactConcordiumSchemeV1.settle *)

SettleFailure(reason, p) ==
    [kind |-> "return", success |-> FALSE, network |-> p.network,
     transaction |-> p.txHash, errorReason |-> reason, payer |-> p.sender]

SettleSuccess(p) ==
    [kind |-> "return", success |-> TRUE, network |-> p.network,
     transaction |-> p.txHash, errorReason |-> "undefined", payer |-> p.sender]

\* verify is awaited outside settle's try block: its rejection is settle's rejection
SettleRejected(p) ==
    [kind |-> "throw", success |-> FALSE, network |-> p.network,
     transaction |-> p.txHash, errorReason |-> "undefined", payer |-> p.sender]

\* the failure of verify reported under the fallback tag, its own reason dropped
ReasonAlwaysDefault(reason) == "invalid_payment"

\* verifyResult.invalidReason ?? "invalid_payment"
ReasonOrDefault(reason) == IF reason = "undefined" THEN "invalid_payment" ELSE reason

\* settle going on to the wait whatever requireFinalization says
CallsWaitRegardless(verifyResult, cfg) ==
    verifyResult.kind = "return" /\ verifyResult.isValid

\* settle goes on to nodeClient.waitForFinalization
CallsWait(verifyResult, cfg) ==
    verifyResult.kind = "return" /\ verifyResult.isValid /\ cfg.requireFinalization

\* the test on the waiter's answer that no answer passes
NotFinalizedWhatever(waitAnswer) == TRUE

\* the test on the waiter's answer letting a failed snapshot through
NotFinalizedNorFailed(waitAnswer) ==
    waitAnswer.kind = "null" \/ waitAnswer.info.status \notin {"finalized", "failed"}

\* the test on the waiter's answer with the absent answer let through
NotFinalizedUnlessAbsent(waitAnswer) ==
    waitAnswer.kind # "null" /\ waitAnswer.info.status # "finalized"

\* !finalizedTx || finalizedTx.status !== "finalized"
NotFinalized(waitAnswer) ==
    waitAnswer.kind = "null" \/ waitAnswer.info.status # "finalized"

\* settle with the wait outside a try block: the waiter's error leaves settle
settleWithoutCatch(p, verifyResult, waitAnswer, cfg) ==
    IF verifyResult.kind = "throw" THEN SettleRejected(p)
    ELSE IF ~verifyResult.isValid
        THEN SettleFailure(ReasonOrDefault(verifyResult.invalidReason), p)
    ELSE IF cfg.requireFinalization
        THEN IF waitAnswer.kind = "throw" THEN SettleRejected(p)
             ELSE IF NotFinalized(waitAnswer) THEN SettleFailure("finalization_timeout", p)
             ELSE SettleSuccess(p)
    ELSE SettleSuccess(p)

\* settle, given what verify returned and what waitForFinalization answers when called
settle(p, verifyResult, waitAnswer, cfg) ==
    IF verifyResult.kind = "throw" THEN SettleRejected(p)
    ELSE IF ~verifyResult.isValid
        THEN SettleFailure(ReasonOrDefault(verifyResult.invalidReason), p)
    ELSE IF cfg.requireFinalization
        THEN IF waitAnswer.kind = "throw" THEN SettleFailure("finalization_failed", p)
             ELSE IF NotFinalized(waitAnswer) THEN SettleFailure("finalization_timeout", p)
             ELSE SettleSuccess(p)
    ELSE SettleSuccess(p)

WaitCall(p, verifyResult, cfg) ==
    IF CallsWait(verifyResult, cfg)
    THEN <<[fn |-> "waitForFinalization", txHash |-> p.txHash,
            timeoutMs |-> cfg.finalizationTimeoutMs]>>
    ELSE <<>>

----------------------------------------------------------------------------
(* Specification SpecSettle: one settle call of either facilitator on a mock   *)
(* node client (getTransactionStatus and waitForFinalization are stubs whose   *)
(* answers are chosen freely, as in test/unit/server.test.ts).                 *)

SettleRequirements ==
    [scheme : Schemes, network : {"ccd:testnet"}, payTo : PayTos,
     amount : {<<"2">>}, asset : {<<>>, TokenA}]

SettleTxInfos ==
    [status : Statuses, sender : {AliceLower, CarolLower},
     recipient : {Undefined, CarolLower}, amount : {<<"1">>, <<"2">>, <<"2", "1">>},
     asset : {<<>>, TokenA}, error : {Undefined}]

SettleLookupAnswers == {Threw, Null} \cup {Info(i) : i \in SettleTxInfos}

WaitTxInfos ==
    [status : Statuses, sender : {AliceLower}, recipient : {CarolLower},
     amount : {<<"2">>}, asset : {<<>>}, error : {Undefined}]

WaitAnswers == {Threw, Null} \cup {Info(i) : i \in WaitTxInfos}

SettleConfigs == [requireFinalization : BOOLEAN, finalizationTimeoutMs : {5000, 60000}]

InitSettle ==
    /\ payload \in Payloads
    /\ requirements \in SettleRequirements
    /\ config \in SettleConfigs
    /\ pc = "idle"
    /\ op = "none"
    /\ version = 0
    /\ lookup = NotCalled
    /\ waited = NotCalled
    /\ outcome = NoOutcome
    /\ waiterPlan \in WaitAnswers
    /\ calls = <<>>
    /\ history = <<>>
    /\ other = NoOther
    /\ assets = NoAssets
    /\ args = NoArgs
    /\ NodeUnused

SettleV2 ==
    /\ pc = "idle"
    /\ \E answer \in SettleLookupAnswers :
        LET verifyResult == verify(payload, requirements, answer, config) IN
        /\ lookup' = IF AsksLedger(payload, requirements) THEN answer ELSE NotCalled
        /\ waited' = IF CallsWait(verifyResult, config) THEN waiterPlan ELSE NotCalled
        /\ outcome' = settle(payload, verifyResult, waiterPlan, config)
        /\ calls' = LookupCall(payload, requirements)
                      \o WaitCall(payload, verifyResult, config)
    /\ pc' = "done"
    /\ op' = "settle"
    /\ version' = 2
    /\ UNCHANGED <<payload, requirements, config, waiterPlan, history, other, serverVars, nodeVars>>

SettleV1 ==
    /\ pc = "idle"
    /\ \E answer \in SettleLookupAnswers :
        LET verifyResult == verifyV1(payload, requirements, answer, config) IN
        /\ lookup' = IF AsksLedger(payload, requirements) THEN answer ELSE NotCalled
        /\ waited' = IF CallsWait(verifyResult, config) THEN waiterPlan ELSE NotCalled
        /\ outcome' = settle(payload, verifyResult, waiterPlan, config)
        /\ calls' = LookupCall(payload, requirements)
                      \o WaitCall(payload, verifyResult, config)
    /\ pc' = "done"
    /\ op' = "settle"
    /\ version' = 1
    /\ UNCHANGED <<payload, requirements, config, waiterPlan, history, other, serverVars, nodeVars>>

NextSettle == SettleV2 \/ SettleV1

SpecSettle == InitSettle /\ [][NextSettle]_vars

----------------------------------------------------------------------------
(* createConcordiumNodeClient(grpcClient): the node client over a gRPC client *)

\* what the transaction under test holds once the node has its summary
SummarySender == AliceLower
TransferTo == CarolLower
TransferAmount == <<"2">>
ContractAddress == TokenA
RejectReason == <<"r">>

\* BlockItemStatus as the node reports it: raw status, the outcome summary's result
\* ("none" when the outcome carries no summary) and what the summary holds
\* (a transfer, a contractUpdate, or neither)
BlockItemStatuses ==
    [status : {"received", "committed", "finalized"}, summary : {"none"}, body : {"plain"}]
    \cup [status : {"received", "committed", "finalized"},
          summary : {"success", "reject"}, body : {"transfer", "contractUpdate", "plain"}]

GrpcThrew == [status |-> "throw", summary |-> "none", body |-> "plain"]

\* the status switch with every case falling to its default
mapStatusEnumDefaultOnly(sdkStatus, raw) ==
    IF raw.summary = "reject" THEN "failed" ELSE "pending"

mapStatusEnum(sdkStatus, raw) ==
    IF raw.summary = "reject" THEN "failed"
    ELSE CASE sdkStatus = "received"  -> "pending"
           [] sdkStatus = "committed" -> "committed"
           [] sdkStatus = "finalized" -> "finalized"
           [] OTHER                   -> "pending"

\* the mapping with the reject override applied to committed records only
mapTransactionStatusRejectWhileCommitted(raw) ==
    LET rejected == raw.summary = "reject" /\ raw.status = "committed"
        plain == CASE raw.status = "received"  -> "pending"
                   [] raw.status = "committed" -> "committed"
                   [] raw.status = "finalized" -> "finalized"
        hasSummary == raw.summary # "none"
        transfer == hasSummary /\ raw.body = "transfer"
    IN  [status |-> IF rejected THEN "failed" ELSE plain,
         sender |-> IF hasSummary THEN SummarySender ELSE <<>>,
         recipient |-> IF transfer THEN TransferTo ELSE Undefined,
         amount |-> IF transfer THEN TransferAmount ELSE Undefined,
         asset |-> IF transfer THEN <<>>
                   ELSE IF hasSummary /\ raw.body = "contractUpdate" THEN ContractAddress
                   ELSE Undefined,
         error |-> IF rejected THEN RejectReason ELSE Undefined]

mapTransactionStatus(raw) ==
    LET base == [status |-> mapStatusEnum(raw.status, raw), sender |-> <<>>,
                 recipient |-> Undefined, amount |-> Undefined, asset |-> Undefined,
                 error |-> Undefined]
        withSender == IF raw.summary = "none" THEN base
                      ELSE [base EXCEPT !.sender = SummarySender]
        withReject == IF raw.summary = "reject"
                      THEN [withSender EXCEPT !.status = "failed", !.error = RejectReason]
                      ELSE withSender
        withTransfer == IF raw.summary # "none" /\ raw.body = "transfer"
                        THEN [withReject EXCEPT !.recipient = TransferTo,
                                                !.amount = TransferAmount,
                                                !.asset = <<>>]
                        ELSE withReject
    IN  IF raw.summary # "none" /\ raw.body = "contractUpdate"
        THEN [withTransfer EXCEPT !.asset = ContractAddress]
        ELSE withTransfer

\* getTransactionStatus without its catch: the gRPC error reaches the caller
getTransactionStatusRethrowing(grpcAnswer) ==
    IF grpcAnswer.status = "throw" THEN Threw
    ELSE IF grpcAnswer.status = "null" THEN Null
    ELSE Info(mapTransactionStatus(grpcAnswer))

\* getTransactionStatus: the gRPC answer is a thrown error, null, or a BlockItemStatus
getTransactionStatus(grpcAnswer) ==
    IF grpcAnswer.status = "throw" THEN Null
    ELSE IF grpcAnswer.status = "null" THEN Null
    ELSE Info(mapTransactionStatus(grpcAnswer))

\* waitForFinalization's push branch: the snapshot built from a FinalizedTransaction
PushSnapshot(raw) ==
    Info([status |-> "finalized", sender |-> SummarySender,
          recipient |-> IF raw.body = "transfer" THEN TransferTo ELSE Undefined,
          amount |-> IF raw.body = "transfer" THEN TransferAmount ELSE Undefined,
          asset |-> IF raw.body = "transfer" THEN <<>> ELSE Undefined,
          error |-> Undefined])

PollInterval == 2000

\* while (Date.now() - startTime < timeoutMs)
WithinTimeout(t, start, timeoutMs) == t - start < timeoutMs

IsTerminal(answer) ==
    answer.kind = "info" /\ answer.info.status \in {"finalized", "failed"}

\* the loop with its test for a missing status left out
NoStatusNever(answer) == FALSE

\* if (!status) return null
NoStatus(answer) == answer.kind = "null"

----------------------------------------------------------------------------
(* Specification SpecNode: one call (verify, settle, or waitForFinalization    *)
(* itself) against the node client built by createConcordiumNodeClient, the    *)
(* node's record of the transaction advancing while the call is suspended.     *)

Latencies == {0, 1000}
Timeouts == {1000, 5000}

NodeConfigs == [requireFinalization : BOOLEAN, finalizationTimeoutMs : Timeouts]

NodeRequirements ==
    [scheme : {"exact"}, network : {"ccd:testnet"}, payTo : PayTos,
     amount : {<<"2">>}, asset : {<<>>, TokenA}]

InitNode ==
    /\ payload \in Payloads
    /\ requirements \in NodeRequirements
    /\ config \in NodeConfigs
    /\ pc = "idle"
    /\ op = "none"
    /\ version = 0
    /\ lookup = NotCalled
    /\ waited = NotCalled
    /\ outcome = NoOutcome
    /\ waiterPlan = NotCalled
    /\ calls = <<>>
    /\ history = <<>>
    /\ other = NoOther
    /\ assets = NoAssets
    /\ args = NoArgs
    /\ grpc \in [hasPush : BOOLEAN]
    /\ chain \in {NoChain} \cup BlockItemStatuses
    /\ now = 0
    /\ startTime = 0
    /\ seen = {}
    /\ errors = 0
    /\ waitEnd = NoWaitEnd

verifyOf(v, p, r, answer, cfg) ==
    IF v = 1 THEN verifyV1(p, r, answer, cfg) ELSE verify(p, r, answer, cfg)

\* waitForFinalization up to its first await: the push call when the gRPC client
\* offers it, else pollForFinalization up to its first lookup.
\* pollForFinalization: startTime = Date.now(), then the loop condition.
EnterPoll ==
    /\ startTime' = now'
    /\ pc' = IF WithinTimeout(now', now', config.finalizationTimeoutMs)
             THEN "poll_lookup" ELSE "poll_last"

\* the push call made with the default timeout whatever the caller passed
PushCallWithDefaultTimeout(p, cfg) ==
    [fn |-> "grpc.waitForTransactionFinalization", txHash |-> p.txHash,
     timeoutMs |-> 60000]

\* grpcClient.waitForTransactionFinalization(txHash, timeoutMs)
PushCall(p, cfg) ==
    [fn |-> "grpc.waitForTransactionFinalization", txHash |-> p.txHash,
     timeoutMs |-> cfg.finalizationTimeoutMs]

\* `made` are the calls made so far, that of waitForFinalization included
EnterWait(made) ==
    IF grpc.hasPush
    THEN /\ pc' = "push" /\ startTime' = startTime
         /\ calls' = made \o <<PushCall(payload, config)>>
    ELSE EnterPoll /\ calls' = made

\* waitForFinalization returns `answer` to its caller, which finishes
Finish(answer, cause) ==
    /\ waited' = answer
    /\ waitEnd' = [cause |-> cause, elapsed |-> now' - startTime']
    /\ pc' = "done"
    /\ outcome' = IF op = "settle"
                  THEN settle(payload, Valid(payload), answer, config)
                  ELSE outcome

\* verify(payload, requirements) up to its lookup (V2 when v = 2, V1 when v = 1)
CallVerify(v) ==
    /\ pc = "idle"
    /\ op' = "verify"
    /\ version' = v
    /\ calls' = LookupCall(payload, requirements)
    /\ IF AsksLedger(payload, requirements)
       THEN pc' = "verify_lookup" /\ outcome' = outcome
       ELSE pc' = "done" /\ outcome' = verifyOf(v, payload, requirements, NotCalled, config)
    /\ UNCHANGED <<payload, requirements, config, lookup, waited, waiterPlan, history, other, serverVars, nodeVars>>

\* settle(payload, requirements) up to the lookup of its leading verify
CallSettle(v) ==
    /\ pc = "idle"
    /\ op' = "settle"
    /\ version' = v
    /\ calls' = LookupCall(payload, requirements)
    /\ IF AsksLedger(payload, requirements)
       THEN pc' = "verify_lookup" /\ outcome' = outcome
       ELSE /\ pc' = "done"
            /\ outcome' = settle(payload,
                                 verifyOf(v, payload, requirements, NotCalled, config),
                                 NotCalled, config)
    /\ UNCHANGED <<payload, requirements, config, lookup, waited, waiterPlan, history, other, serverVars, nodeVars>>

\* nodeClient.waitForFinalization(txHash, timeoutMs) called on its own
CallWaitForFinalization ==
    /\ pc = "idle"
    /\ op' = "waitForFinalization"
    /\ version' = 0
    /\ now' = now
    /\ EnterWait(<<[fn |-> "waitForFinalization", txHash |-> payload.txHash,
                    timeoutMs |-> config.finalizationTimeoutMs]>>)
    /\ UNCHANGED <<payload, requirements, config, lookup, waited, outcome, waiterPlan, history, other, serverVars,
                   grpc, chain, seen, errors, waitEnd>>

\* what one getBlockItemStatus call answers: the node's record, or a transport error
GrpcAnswers == {chain, GrpcThrew}

Reported(answer) == IF answer.kind = "info" THEN answer.info.status ELSE "null"

\* the lookup awaited by verify resolves; verify runs to its return, and settle goes on
\* to its own return or to the first await of waitForFinalization
VerifyLookupReturns ==
    /\ pc = "verify_lookup"
    /\ \E g \in GrpcAnswers, latency \in Latencies :
        LET answer == getTransactionStatus(g)
            verifyResult == verifyOf(version, payload, requirements, answer, config)
        IN
        /\ now' = now + latency
        /\ lookup' = answer
        /\ seen' = seen \cup {Reported(answer)}
        /\ errors' = IF g = GrpcThrew THEN errors + 1 ELSE errors
        /\ IF op = "verify"
           THEN /\ outcome' = verifyResult
                /\ pc' = "done"
                /\ UNCHANGED <<calls, startTime>>
           ELSE IF CallsWait(verifyResult, config)
           THEN /\ outcome' = outcome
                /\ EnterWait(calls \o WaitCall(payload, verifyResult, config))
           ELSE /\ outcome' = settle(payload, verifyResult, NotCalled, config)
                /\ pc' = "done"
                /\ UNCHANGED <<calls, startTime>>
    /\ UNCHANGED <<payload, requirements, config, op, version, waited, waiterPlan, history, other, serverVars,
                   grpc, chain, waitEnd>>

\* grpcClient.waitForTransactionFinalization resolves with a finalized transaction
PushResolves ==
    /\ pc = "push"
    /\ chain.status = "finalized" /\ chain.summary # "none"
    /\ \E latency \in Latencies : now' = now + latency
    /\ startTime' = startTime
    /\ Finish(PushSnapshot(chain), "push")
    /\ UNCHANGED <<payload, requirements, config, op, version, lookup, waiterPlan, history, other, serverVars, calls,
                   grpc, chain, seen, errors>>

\* grpcClient.waitForTransactionFinalization resolves with null after its timeout
PushTimesOut ==
    /\ pc = "push"
    /\ chain.status # "finalized"
    /\ now' = now + config.finalizationTimeoutMs
    /\ startTime' = startTime
    /\ Finish(Null, "push")
    /\ UNCHANGED <<payload, requirements, config, op, version, lookup, waiterPlan, history, other, serverVars, calls,
                   grpc, chain, seen, errors>>

\* grpcClient.waitForTransactionFinalization throws: fall back to polling
PushThrows ==
    /\ pc = "push"
    /\ \E latency \in Latencies : now' = now + latency
    /\ EnterPoll
    /\ UNCHANGED <<payload, requirements, config, op, version, lookup, waited, outcome,
                   waiterPlan, history, other, serverVars, calls, grpc, chain, seen, errors, waitEnd>>

\* the lookup awaited inside the polling loop resolves
PollLookupReturns ==
    /\ pc = "poll_lookup"
    /\ \E g \in GrpcAnswers, latency \in Latencies :
        LET answer == getTransactionStatus(g) IN
        /\ now' = now + latency
        /\ startTime' = startTime
        /\ seen' = seen \cup {Reported(answer)}
        /\ errors' = IF g = GrpcThrew THEN errors + 1 ELSE errors
        /\ IF NoStatus(answer)
           THEN Finish(Null, IF g = GrpcThrew THEN "error" ELSE "no_record")
           ELSE IF IsTerminal(answer)
           THEN Finish(answer, "terminal")
           ELSE /\ pc' = "poll_sleep"
                /\ UNCHANGED <<waited, outcome, waitEnd>>
    /\ UNCHANGED <<payload, requirements, config, op, version, lookup, waiterPlan, history, other, serverVars, calls,
                   grpc, chain>>

\* the setTimeout(pollInterval) awaited inside the loop fires; the loop condition is
\* evaluated again
SleepReturns ==
    /\ pc = "poll_sleep"
    /\ now' = now + PollInterval
    /\ pc' = IF WithinTimeout(now', startTime, config.finalizationTimeoutMs)
             THEN "poll_lookup" ELSE "poll_last"
    /\ UNCHANGED <<payload, requirements, config, op, version, lookup, waited, outcome,
                   waiterPlan, history, other, serverVars, calls, grpc, chain, startTime, seen, errors, waitEnd>>

\* the loop has ended: return this.getTransactionStatus(txHash)
LastLookupReturns ==
    /\ pc = "poll_last"
    /\ \E g \in GrpcAnswers, latency \in Latencies :
        LET answer == getTransactionStatus(g) IN
        /\ now' = now + latency
        /\ startTime' = startTime
        /\ seen' = seen \cup {Reported(answer)}
        /\ errors' = IF g = GrpcThrew THEN errors + 1 ELSE errors
        /\ Finish(answer, "timeout")
    /\ UNCHANGED <<payload, requirements, config, op, version, lookup, waiterPlan, history, other, serverVars, calls,
                   grpc, chain>>

\* the node's record advances: received, then committed with its outcome, then finalized
LedgerAdvances ==
    /\ pc \notin {"idle", "done"}
    /\ \/ /\ chain.status = "null"
          /\ chain' = [status |-> "received", summary |-> "none", body |-> "plain"]
       \/ /\ chain.status = "received"
          /\ \E res \in {"success", "reject"}, b \in {"transfer", "contractUpdate", "plain"} :
                chain' = IF chain.summary = "none"
                         THEN [status |-> "committed", summary |-> res, body |-> b]
                         ELSE [chain EXCEPT !.status = "committed"]
       \/ /\ chain.status = "committed"
          /\ chain' = [chain EXCEPT !.status = "finalized"]
    /\ UNCHANGED <<facilitatorVars, mockVars, history, other, serverVars, grpc, now, startTime, seen, errors, waitEnd>>

NextNode ==
    \/ \E v \in {1, 2} : CallVerify(v)
    \/ \E v \in {1, 2} : CallSettle(v)
    \/ CallWaitForFinalization
    \/ VerifyLookupReturns
    \/ PushResolves
    \/ PushTimesOut
    \/ PushThrows
    \/ PollLookupReturns
    \/ SleepReturns
    \/ LastLookupReturns
    \/ LedgerAdvances

SpecNode == InitNode /\ [][NextNode]_vars

----------------------------------------------------------------------------
(* The constructors of ExactConcordiumScheme and ExactConcordiumSchemeV1, and   *)
(* specification SpecDefaults: one verify or settle call, on the mock node      *)
(* client, of a facilitator constructed from a node client alone.               *)

\* an optional field of the constructor's argument: left out, or given
Absent == <<>>
Given(v) == <<v>>

\* opt ?? d
OrDefault(opt, d) == IF opt = Absent THEN d ELSE opt[1]

DefaultTimeoutMs == 60000

Options ==
    [requireFinalization : {Absent, Given(TRUE), Given(FALSE)},
     finalizationTimeoutMs : {Absent, Given(5000)}]

NoOptions == [requireFinalization |-> Absent, finalizationTimeoutMs |-> Absent]

\* a constructor whose requireFinalization falls back to false
ConstructFinalityOff(options) ==
    [requireFinalization |-> OrDefault(options.requireFinalization, FALSE),
     finalizationTimeoutMs |-> OrDefault(options.finalizationTimeoutMs, DefaultTimeoutMs)]

\* constructor(config): this.config
Construct(options) ==
    [requireFinalization |-> OrDefault(options.requireFinalization, TRUE),
     finalizationTimeoutMs |-> OrDefault(options.finalizationTimeoutMs, DefaultTimeoutMs)]

InitDefaults ==
    /\ payload \in Payloads
    /\ requirements \in SettleRequirements
    /\ config = Construct(NoOptions)
    /\ pc = "idle"
    /\ op = "none"
    /\ version = 0
    /\ lookup = NotCalled
    /\ waited = NotCalled
    /\ outcome = NoOutcome
    /\ waiterPlan \in WaitAnswers
    /\ calls = <<>>
    /\ history = <<>>
    /\ other = NoOther
    /\ assets = NoAssets
    /\ args = NoArgs
    /\ NodeUnused

NextDefaults == VerifyV2 \/ VerifyV1 \/ SettleV2 \/ SettleV1

SpecDefaults == InitDefaults /\ [][NextDefaults]_vars

----------------------------------------------------------------------------
(* Specification SpecHint: one verify or settle call, on the mock node client, *)
(* for a payload that carries the optional blockHash of                        *)
(* ExactConcordiumPayloadV2 / V1.                                              *)

BlockHashes == {Undefined, <<"b", "1">>, <<"b", "2">>}

HintPayloads ==
    [scheme : Schemes, network : Networks, txHash : TxHashes, sender : PayloadSenders,
     blockHash : BlockHashes]

InitHint ==
    /\ payload \in HintPayloads
    /\ requirements \in SettleRequirements
    /\ config \in Configs
    /\ pc = "idle"
    /\ op = "none"
    /\ version = 0
    /\ lookup = NotCalled
    /\ waited = NotCalled
    /\ outcome = NoOutcome
    /\ waiterPlan \in WaitAnswers
    /\ calls = <<>>
    /\ history = <<>>
    /\ other = NoOther
    /\ assets = NoAssets
    /\ args = NoArgs
    /\ NodeUnused

NextHint == VerifyV2 \/ VerifyV1 \/ SettleV2 \/ SettleV1

SpecHint == InitHint /\ [][NextHint]_vars

----------------------------------------------------------------------------
(* Specification SpecRepeat: calls made one after another on the same          *)
(* facilitator and node client, for the same payload and requirements. The     *)
(* facilitator object holds nothing but its configuration, so a call starts    *)
(* from the same fields as the first one; the node's record and the clock go   *)
(* on from where the previous call left them.                                  *)

MaxCalls == 2

\* the node's record before the first call
LedgerBefore(c) ==
    [op |-> "none", version |-> 0, outcome |-> NoOutcome, errors |-> 0, seen |-> {},
     chain |-> c]

\* what the call that has just returned leaves behind
Returned ==
    [op |-> op, version |-> version, outcome |-> outcome, errors |-> errors,
     seen |-> seen, chain |-> chain]

RepeatConfigs == [requireFinalization : BOOLEAN, finalizationTimeoutMs : {1000}]

InitRepeat ==
    /\ payload \in Payloads
    /\ requirements \in NodeRequirements
    /\ config \in RepeatConfigs
    /\ pc = "idle"
    /\ op = "none"
    /\ version = 0
    /\ lookup = NotCalled
    /\ waited = NotCalled
    /\ outcome = NoOutcome
    /\ waiterPlan = NotCalled
    /\ calls = <<>>
    /\ grpc \in [hasPush : BOOLEAN]
    /\ chain \in {NoChain} \cup BlockItemStatuses
    /\ now = 0
    /\ startTime = 0
    /\ seen = {}
    /\ errors = 0
    /\ waitEnd = NoWaitEnd
    /\ history = <<LedgerBefore(chain)>>
    /\ other = NoOther
    /\ assets = NoAssets
    /\ args = NoArgs

\* the caller has its result and the facilitator is free for the next call: the
\* locals of the finished call are gone, the configuration and the node stay.
\* Date.now() is only ever read as a difference from startTime, so the clock is
\* counted from the start of each call.
NextCall ==
    /\ pc = "done"
    /\ Len(history) < MaxCalls
    /\ history' = Append(history, Returned)
    /\ pc' = "idle"
    /\ op' = "none"
    /\ version' = 0
    /\ lookup' = NotCalled
    /\ waited' = NotCalled
    /\ outcome' = NoOutcome
    /\ calls' = <<>>
    /\ startTime' = 0
    /\ seen' = {}
    /\ errors' = 0
    /\ waitEnd' = NoWaitEnd
    /\ now' = 0
    /\ UNCHANGED <<payload, requirements, config, waiterPlan, grpc, chain, other, serverVars>>

\* the calls are those of the V2 facilitator and of the node client
NextRepeat ==
    \/ CallVerify(2)
    \/ CallSettle(2)
    \/ CallWaitForFinalization
    \/ VerifyLookupReturns
    \/ PushResolves
    \/ PushTimesOut
    \/ PushThrows
    \/ PollLookupReturns
    \/ SleepReturns
    \/ LastLookupReturns
    \/ LedgerAdvances
    \/ NextCall

SpecRepeat == InitRepeat /\ [][NextRepeat]_vars

----------------------------------------------------------------------------
(* Specification SpecConcurrent: two calls in flight on one V2 facilitator and *)
(* one node client, for two different transactions. Each async call runs from  *)
(* one await to the next without interruption; at an await the event loop may  *)
(* resume the other call. The call whose continuation runs has its locals in   *)
(* the variables of the single-call specifications, the suspended one has      *)
(* them in `other`. The facilitator's configuration, the gRPC client and the   *)
(* clock are the same for both.                                                *)

\* the lookup's answer kept in one slot of the node client instead of a local: a
\* suspended call finds the other call's answer there
LocalsWithSharedLookup(i) ==
    [id |-> i, payload |-> payload, requirements |-> requirements, pc |-> pc,
     op |-> op, version |-> version, lookup |-> other.lookup, waited |-> waited,
     outcome |-> outcome, calls |-> calls, chain |-> chain, startTime |-> startTime,
     seen |-> seen, errors |-> errors, waitEnd |-> waitEnd]

\* the locals of the running call, to be kept while it is suspended
Locals(i) ==
    [id |-> i, payload |-> payload, requirements |-> requirements, pc |-> pc,
     op |-> op, version |-> version, lookup |-> lookup, waited |-> waited,
     outcome |-> outcome, calls |-> calls, chain |-> chain, startTime |-> startTime,
     seen |-> seen, errors |-> errors, waitEnd |-> waitEnd]

\* a second call not yet made, for payload p and requirements r, the node holding
\* record c for its transaction
Unstarted(p, r, c) ==
    [id |-> 2, payload |-> p, requirements |-> r, pc |-> "idle",
     op |-> "none", version |-> 0, lookup |-> NotCalled, waited |-> NotCalled,
     outcome |-> NoOutcome, calls |-> <<>>, chain |-> c, startTime |-> 0,
     seen |-> {}, errors |-> 0, waitEnd |-> NoWaitEnd]

FirstPayload ==
    [scheme |-> "exact", network |-> "ccd:testnet", txHash |-> "tx1", sender |-> Alice]

SecondPayload ==
    [scheme |-> "exact", network |-> "ccd:testnet", txHash |-> "tx2", sender |-> Alice]

\* records the node may hold for the second transaction when the calls begin
SecondChains ==
    {NoChain,
     [status |-> "committed", summary |-> "success", body |-> "transfer"],
     [status |-> "finalized", summary |-> "success", body |-> "transfer"]}

\* records the node may hold for the first transaction when the calls begin
FirstChains ==
    SecondChains \cup {[status |-> "received", summary |-> "none", body |-> "plain"],
                       [status |-> "committed", summary |-> "reject", body |-> "transfer"]}

ConcurrentRequirements ==
    [scheme : {"exact"}, network : {"ccd:testnet"}, payTo : PayTos,
     amount : {<<"2">>}, asset : {<<>>}]

InitConcurrent ==
    /\ payload = FirstPayload
    /\ requirements \in ConcurrentRequirements
    /\ config \in RepeatConfigs
    /\ pc = "idle"
    /\ op = "none"
    /\ version = 0
    /\ lookup = NotCalled
    /\ waited = NotCalled
    /\ outcome = NoOutcome
    /\ waiterPlan = NotCalled
    /\ calls = <<>>
    /\ grpc \in [hasPush : BOOLEAN]
    /\ chain \in FirstChains
    /\ now = 0
    /\ startTime = 0
    /\ seen = {}
    /\ errors = 0
    /\ waitEnd = NoWaitEnd
    /\ history = <<>>
    /\ \E c \in SecondChains : other = Unstarted(SecondPayload, requirements, c)
    /\ assets = NoAssets
    /\ args = NoArgs

\* the running call is suspended at its await (or has returned, or is yet to be
\* made) and the event loop runs the other call
Switch ==
    /\ other.id # 0
    /\ other.pc # "done"
    /\ other' = Locals(3 - other.id)
    /\ payload' = other.payload
    /\ requirements' = other.requirements
    /\ pc' = other.pc
    /\ op' = other.op
    /\ version' = other.version
    /\ lookup' = other.lookup
    /\ waited' = other.waited
    /\ outcome' = other.outcome
    /\ calls' = other.calls
    /\ chain' = other.chain
    /\ startTime' = other.startTime
    /\ seen' = other.seen
    /\ errors' = other.errors
    /\ waitEnd' = other.waitEnd
    /\ UNCHANGED <<config, waiterPlan, grpc, now, history, serverVars>>

\* a step of the running call: the first call is a verify or a settle, the second a
\* settle or a wait for finality made on the node client directly
CallStep ==
    \/ other.id = 2 /\ CallVerify(2)
    \/ CallSettle(2)
    \/ other.id = 1 /\ CallWaitForFinalization
    \/ VerifyLookupReturns
    \/ PushResolves
    \/ PushTimesOut
    \/ PushThrows
    \/ PollLookupReturns
    \/ SleepReturns
    \/ LastLookupReturns

NextConcurrent == CallStep \/ LedgerAdvances \/ Switch

SpecConcurrent == InitConcurrent /\ [][NextConcurrent]_vars

\* The event loop resumes the first call whenever it is suspended and runs its
\* continuation whenever its awaited promise has settled (the node answers, the timer
\* fires). Nothing is assumed of the second call: it may stay suspended for ever.
FirstCallResumed == other.id = 1 /\ Switch

FirstCallRuns == other.id = 2 /\ CallStep

SpecConcurrentFair ==
    SpecConcurrent /\ WF_vars(FirstCallResumed) /\ SF_vars(FirstCallRuns)

----------------------------------------------------------------------------
(* Server scheme (exact/server/scheme.ts): the asset registry and            *)
(* parsePriceWithExtra. The registry is the Map `assets` keyed by            *)
(* "network:SYMBOL"; in SpecServer `history` holds the registerAsset calls   *)
(* that have returned, in order.                                             *)

MaxRegistrations == 2

UpperChar(c) ==
    CASE c = "c" -> "C"
      [] c = "d" -> "D"
      [] c = "e" -> "E"
      [] c = "n" -> "N"
      [] c = "u" -> "U"
      [] OTHER   -> c

toUpperCase(s) == [i \in DOMAIN s |-> UpperChar(s[i])]

WildcardNetwork == <<"c", "c", "d", ":", "*">>
TestnetNetwork == <<"c", "c", "d", ":", "t">>
MainnetNetwork == <<"c", "c", "d", ":", "m">>

CCD_NATIVE ==
    [contractIndex |-> <<>>, contractSubindex |-> <<>>, tokenId |-> <<>>,
     name |-> "CCD", decimals |-> 6]

\* a registry miss: Map.get answers undefined
UndefinedAsset == [undefined |-> TRUE]

\* Map.get(key)
MapGet(m, key) == IF key \in DOMAIN m THEN m[key] ELSE UndefinedAsset

\* Map.set(key, value): a later set of the same key replaces the value
MapSet(m, key, value) ==
    [k \in DOMAIN m \cup {key} |-> IF k = key THEN value ELSE m[k]]

\* `${network}:${symbol.toUpperCase()}`
assetKey(network, symbol) == network \o <<":">> \o toUpperCase(symbol)

\* registerAsset(network, symbol, asset): the registry afterwards
registerAsset(m, network, symbol, asset) == MapSet(m, assetKey(network, symbol), asset)

\* the fallback looking the symbol up under the asked network again
getAssetWithoutWildcard(m, network, symbol) ==
    LET exact == MapGet(m, assetKey(network, symbol)) IN
    IF exact # UndefinedAsset THEN exact
    ELSE MapGet(m, assetKey(network, symbol))

\* getAsset(network, symbol): the exact network first, then the wildcard
getAsset(m, network, symbol) ==
    LET exact == MapGet(m, assetKey(network, symbol)) IN
    IF exact # UndefinedAsset THEN exact
    ELSE MapGet(m, assetKey(WildcardNetwork, symbol))

\* a call's result: the value returned, or the Error thrown
Returns(v) == [kind |-> "return", value |-> v]
Throws(message) == [kind |-> "throw", error |-> message]

\* JavaScript values an `unknown` field or a Price may hold
JsUndefined == [type |-> "undefined", str |-> <<>>, num |-> 0]
JsString(s) == [type |-> "string", str |-> s, num |-> 0]
JsNumber(n) == [type |-> "number", str |-> <<>>, num |-> n]

\* truthiness of a JavaScript value: undefined, "" and 0 are falsy
JsTruthy(v) ==
    CASE v.type = "undefined" -> FALSE
      [] v.type = "string"    -> v.str # <<>>
      [] v.type = "number"    -> v.num # 0

\* extra?: Record<string, unknown>, of which only the field asset is read
NoExtra == [given |-> FALSE, asset |-> JsUndefined]
Extra(a) == [given |-> TRUE, asset |-> a]

\* extra?.asset
ExtraAsset(extra) == IF extra.given THEN extra.asset ELSE JsUndefined

\* the native symbol compared as written, without folding the case
resolveAssetCaseSensitive(m, network, extra) ==
    LET symbol == ExtraAsset(extra) IN
    IF ~JsTruthy(symbol) THEN Returns(CCD_NATIVE)
    ELSE IF symbol.type # "string" THEN Throws("extra.asset must be a string symbol")
    ELSE IF symbol.str = <<"C", "C", "D">> THEN Returns(CCD_NATIVE)
    ELSE LET asset == getAsset(m, network, symbol.str) IN
         IF asset = UndefinedAsset THEN Throws("Unknown asset") ELSE Returns(asset)

\* resolveAsset(network, extra)
resolveAsset(m, network, extra) ==
    LET symbol == ExtraAsset(extra) IN
    IF ~JsTruthy(symbol) THEN Returns(CCD_NATIVE)
    ELSE IF symbol.type # "string" THEN Throws("extra.asset must be a string symbol")
    ELSE IF toUpperCase(symbol.str) = <<"C", "C", "D">> THEN Returns(CCD_NATIVE)
    ELSE LET asset == getAsset(m, network, symbol.str) IN
         IF asset = UndefinedAsset THEN Throws("Unknown asset") ELSE Returns(asset)

\* the longest prefix of decimal digits
RECURSIVE DigitPrefix(_)
DigitPrefix(s) ==
    IF s = <<>> \/ s[1] \notin Digits THEN <<>>
    ELSE <<s[1]>> \o DigitPrefix(Tail(s))

\* parseFloat(string) on strings of digits, "-", "$" and letters: an optional sign, then
\* the leading digits; NaN when no digit leads
parseFloat(s) ==
    LET neg == s # <<>> /\ s[1] = "-"
        digits == DigitPrefix(IF neg THEN Tail(s) ELSE s)
    IN  IF digits = <<>> THEN [nan |-> TRUE, val |-> 0]
        ELSE [nan |-> FALSE,
              val |-> IF neg THEN 0 - DecimalValue(digits) ELSE DecimalValue(digits)]

\* Number(string) on the same strings: "" is 0, an optionally signed string of digits is
\* its value, anything else NaN
Number(s) ==
    LET neg == s # <<>> /\ s[1] = "-"
        rest == IF neg THEN Tail(s) ELSE s
    IN  IF s = <<>> THEN [nan |-> FALSE, val |-> 0]
        ELSE IF rest = <<>> \/ DigitPrefix(rest) # rest THEN [nan |-> TRUE, val |-> 0]
        ELSE [nan |-> FALSE,
              val |-> IF neg THEN 0 - DecimalValue(rest) ELSE DecimalValue(rest)]

DigitChar(d) ==
    CASE d = 0 -> "0" [] d = 1 -> "1" [] d = 2 -> "2" [] d = 3 -> "3" [] d = 4 -> "4"
      [] d = 5 -> "5" [] d = 6 -> "6" [] d = 7 -> "7" [] d = 8 -> "8" [] d = 9 -> "9"

\* Number.prototype.toString() of a non-negative integer
RECURSIVE toString(_)
toString(n) ==
    IF n < 10 THEN <<DigitChar(n)>>
    ELSE Append(toString(n \div 10), DigitChar(n % 10))

\* Math.pow(10, decimals)
RECURSIVE Pow10(_)
Pow10(d) == IF d = 0 THEN 1 ELSE 10 * Pow10(d - 1)

\* Price: a string, a number, or an AssetAmount object { amount, asset? }
StringPrice(s) ==
    [type |-> "string", str |-> s, num |-> 0, amount |-> <<>>, asset |-> Undefined]
NumberPrice(n) ==
    [type |-> "number", str |-> <<>>, num |-> n, amount |-> <<>>, asset |-> Undefined]
AssetAmountPrice(amount, asset) ==
    [type |-> "object", str |-> <<>>, num |-> 0, amount |-> amount, asset |-> asset]

\* toSmallestUnits(price, decimals), on whole-numbered prices
toSmallestUnits(price, decimals) ==
    LET value == IF price.type = "string" THEN parseFloat(price.str)
                 ELSE [nan |-> FALSE, val |-> price.num]
    IN  IF value.nan \/ value.val < 0 THEN Throws("Invalid price")
        ELSE Returns(toString(value.val * Pow10(decimals)))

\* typeof price === "object" && price !== null && "amount" in price
isAssetAmount(price) == price.type = "object"

\* validateAssetAmount(price): the Error it throws, if any
validateAssetAmount(price) ==
    IF price.amount = <<>> \/ Number(price.amount).nan THEN Throws("Invalid amount")
    ELSE IF Number(price.amount).val < 0 THEN Throws("Amount cannot be negative")
    ELSE Returns("void")

\* price.startsWith("$")
StartsWithDollar(s) == s # <<>> /\ s[1] = "$"

\* the AssetAmount parsePriceWithExtra builds: amount, asset string and the extra fields
\* (the contract fields only for a truthy contractIndex)
AssetAmount(amount, assetString, asset) ==
    [amount |-> amount, asset |-> assetString,
     extra |-> [name |-> asset.name, decimals |-> asset.decimals,
                contractIndex |-> IF Truthy(asset.contractIndex)
                                  THEN asset.contractIndex ELSE Undefined,
                contractSubindex |-> IF Truthy(asset.contractIndex)
                                     THEN asset.contractSubindex ELSE Undefined,
                tokenId |-> IF Truthy(asset.contractIndex)
                            THEN asset.tokenId ELSE Undefined]]

\* an AssetAmount passed through: price.asset || "", price.extra || {}
PassedThrough(price) ==
    [amount |-> price.amount, asset |-> OrEmpty(price.asset),
     extra |-> [name |-> Undefined, decimals |-> 0, contractIndex |-> Undefined,
                contractSubindex |-> Undefined, tokenId |-> Undefined]]

\* parsePriceWithExtra(price, network, extra) on the registry m
parsePriceWithExtra(m, price, network, extra) ==
    IF isAssetAmount(price)
    THEN IF validateAssetAmount(price).kind = "throw" THEN validateAssetAmount(price)
         ELSE Returns(PassedThrough(price))
    ELSE IF price.type = "string" /\ StartsWithDollar(price.str)
    THEN Throws("USD prices not supported")
    ELSE LET resolved == resolveAsset(m, network, extra) IN
         IF resolved.kind = "throw" THEN resolved
         ELSE LET asset == resolved.value
                  amount == toSmallestUnits(price, asset.decimals)
              IN  IF amount.kind = "throw" THEN amount
                  ELSE Returns(AssetAmount(
                           amount.value,
                           IF Truthy(asset.contractIndex)
                           THEN asset.contractIndex \o <<":">> \o asset.contractSubindex
                                \o <<":">> \o asset.tokenId
                           ELSE <<>>,
                           asset))

(* Specification SpecServer: registerAsset, getAsset and parsePriceWithExtra  *)
(* called in any order on one server scheme. Networks are CAIP-2 identifiers  *)
(* (namespace:reference, neither part holding a ':').                         *)

Euro == <<"E", "u">>
EuroLower == <<"e", "u">>
CcdMixed == <<"c", "C", "d">>
UnknownSymbol == <<"U", "n">>

\* a CIS-2 token, a second one with a token id, and an info with the native (empty)
\* contract index under another name
EuroToken ==
    [contractIndex |-> <<"9">>, contractSubindex |-> <<"0">>, tokenId |-> <<>>,
     name |-> "EUROe", decimals |-> 6]
OtherToken ==
    [contractIndex |-> <<"7">>, contractSubindex |-> <<"0">>, tokenId |-> <<"a">>,
     name |-> "PLT", decimals |-> 2]
NativeAlias ==
    [contractIndex |-> <<>>, contractSubindex |-> <<>>, tokenId |-> <<>>,
     name |-> "WCCD", decimals |-> 6]

AssetInfos == {EuroToken, OtherToken, NativeAlias}

\* registrations are made for the testnet and for every network; the mainnet has none
RegisteredNetworks == {TestnetNetwork, WildcardNetwork}
AskedNetworks == {TestnetNetwork, MainnetNetwork}
RegisteredSymbols == {EuroLower, CcdMixed}
AskedSymbols == {Euro, CcdMixed, UnknownSymbol}

ServerPrices ==
    {StringPrice(<<"1">>), StringPrice(<<"$", "1">>), StringPrice(<<"x">>), NumberPrice(2),
     AssetAmountPrice(<<"5">>, <<"9", ":", "0", ":">>)}

ServerExtras ==
    {NoExtra, Extra(JsUndefined), Extra(JsNumber(7)), Extra(JsString(<<>>))}
    \cup {Extra(JsString(a)) : a \in AskedSymbols}

\* one registerAsset call as `history` records it
Registration(network, symbol, asset) ==
    [network |-> network, symbol |-> symbol, asset |-> asset]

InitServer ==
    /\ payload \in {p \in Payloads : p.scheme = "exact" /\ p.network = "ccd:testnet"}
    /\ requirements \in {r \in Requirements : r.scheme = "exact" /\ r.asset = Undefined
                                               /\ r.amount = <<"2">>}
    /\ config \in {c \in Configs : c.requireFinalization}
    /\ pc = "idle"
    /\ op = "none"
    /\ version = 0
    /\ lookup = NotCalled
    /\ waited = NotCalled
    /\ outcome = NoOutcome
    /\ waiterPlan = NotCalled
    /\ calls = <<>>
    /\ history = <<>>
    /\ other = NoOther
    /\ assets = NoAssets
    /\ args = NoArgs
    /\ NodeUnused

\* scheme.registerAsset(network, symbol, asset)
RegisterAsset ==
    /\ Len(history) < MaxRegistrations
    /\ \E network \in RegisteredNetworks, symbol \in RegisteredSymbols, asset \in AssetInfos :
        /\ assets' = registerAsset(assets, network, symbol, asset)
        /\ args' = Registration(network, symbol, asset)
        /\ history' = Append(history, Registration(network, symbol, asset))
    /\ op' = "registerAsset"
    /\ outcome' = Returns("this")
    /\ UNCHANGED <<payload, requirements, config, pc, version, lookup, waited, mockVars,
                   nodeVars, other>>

\* scheme.getAsset(network, symbol)
GetAsset ==
    /\ \E network \in AskedNetworks, symbol \in AskedSymbols :
        /\ args' = [network |-> network, symbol |-> symbol]
        /\ outcome' = Returns(getAsset(assets, network, symbol))
    /\ op' = "getAsset"
    /\ UNCHANGED <<payload, requirements, config, pc, version, lookup, waited, mockVars,
                   nodeVars, history, other, assets>>

\* scheme.parsePriceWithExtra(price, network, extra)
ParsePriceWithExtra ==
    /\ \E price \in ServerPrices, network \in AskedNetworks, extra \in ServerExtras :
        /\ args' = [price |-> price, network |-> network, extra |-> extra]
        /\ outcome' = parsePriceWithExtra(assets, price, network, extra)
    /\ op' = "parsePriceWithExtra"
    /\ UNCHANGED <<payload, requirements, config, pc, version, lookup, waited, mockVars,
                   nodeVars, history, other, assets>>

NextServer == RegisterAsset \/ GetAsset \/ ParsePriceWithExtra

SpecServer == InitServer /\ [][NextServer]_vars

----------------------------------------------------------------------------
(* ConcordiumClient (client/concordium.client.ts): getTransactionStatus and   *)
(* verifyPayment on the node's answer to getBlockItemStatus. In SpecPayment    *)
(* `chain` is that answer and `args` the expected recipient and minAmount.     *)

\* client.getBlockItemStatus(hash) resolved with nothing
NoBlockStatus == [status |-> "none", sender |-> Absent, transfer |-> Absent]

\* summary.transfer of an account transfer: { to: { address }, amount: { microCcdAmount } }
Transfer(to, microCcdAmount) == [to |-> to, microCcdAmount |-> microCcdAmount]

\* blockStatus: status and, of outcome.summary, sender.address and transfer
BlockStatus(status, sender, transfer) ==
    [status |-> status, sender |-> sender, transfer |-> transfer]

\* TransactionInfo as getTransactionStatus builds it
TransactionInfo(status, sender, recipient, amount) ==
    [status |-> status, sender |-> sender, recipient |-> recipient, amount |-> amount]

\* ConcordiumClient.getTransactionStatus(txHash), given what getBlockItemStatus answered
ConcordiumClient_getTransactionStatus(blockStatus) ==
    IF blockStatus = NoBlockStatus
    THEN TransactionInfo("pending", <<>>, <<>>, <<>>)
    ELSE TransactionInfo(
             CASE blockStatus.status = "finalized" -> "finalized"
               [] blockStatus.status = "committed" -> "committed"
               [] OTHER                            -> "pending",
             OrDefault(blockStatus.sender, <<>>),
             IF blockStatus.transfer = Absent THEN <<>>
             ELSE blockStatus.transfer[1].to,
             IF blockStatus.transfer = Absent THEN <<>>
             ELSE toString(blockStatus.transfer[1].microCcdAmount))

\* PaymentVerification
PaymentInvalid(reason, info) == [valid |-> FALSE, reason |-> reason, info |-> info]
PaymentValid(info) == [valid |-> TRUE, reason |-> "undefined", info |-> info]

\* the recipient compared after folding the letter case
verifyPaymentIgnoringCase(info, expected) ==
    IF info.status = "failed" THEN PaymentInvalid("failed", info)
    ELSE IF info.status = "pending" THEN PaymentInvalid("pending", info)
    ELSE IF info.recipient = <<>>
            \/ toLowerCase(info.recipient) # toLowerCase(expected.recipient)
    THEN PaymentInvalid("recipient_mismatch", info)
    ELSE IF BigInt(info.amount).val < expected.minAmount
    THEN PaymentInvalid("insufficient_amount", info)
    ELSE PaymentValid(info)

\* verifyPayment(txHash, expected) after the lookup returned info (an object, so that
\* `!info` is false; amount is a string of digits, so that BigInt does not throw)
verifyPayment(info, expected) ==
    IF info.status = "failed" THEN PaymentInvalid("failed", info)
    ELSE IF info.status = "pending" THEN PaymentInvalid("pending", info)
    ELSE IF info.recipient = <<>> \/ info.recipient # expected.recipient
    THEN PaymentInvalid("recipient_mismatch", info)
    ELSE IF BigInt(info.amount).val < expected.minAmount
    THEN PaymentInvalid("insufficient_amount", info)
    ELSE PaymentValid(info)

(* Specification SpecPayment: one call of the client on a node that holds any  *)
(* record of the transaction, or none, or fails to answer.                     *)

MicroCcdAmounts == {0, 5, 10}

BlockStatuses ==
    {NoBlockStatus}
    \cup {BlockStatus(status, Given(AliceLower), transfer) :
            status \in {"received", "committed", "finalized", "unknown"},
            transfer \in {Absent}
                \cup {Given(Transfer(to, amount)) :
                        to \in {Carol, CarolLower}, amount \in MicroCcdAmounts}}

ExpectedPayments == [recipient : {Carol, Alice}, minAmount : MicroCcdAmounts]

InitPayment ==
    /\ payload \in {p \in Payloads : p.scheme = "exact" /\ p.network = "ccd:testnet"}
    /\ requirements \in {r \in Requirements : r.scheme = "exact" /\ r.asset = Undefined
                                               /\ r.amount = <<"2">>}
    /\ config \in {c \in Configs : c.requireFinalization}
    /\ pc = "idle"
    /\ op = "none"
    /\ version = 0
    /\ lookup = NotCalled
    /\ waited = NotCalled
    /\ outcome = NoOutcome
    /\ waiterPlan = NotCalled
    /\ calls = <<>>
    /\ history = <<>>
    /\ other = NoOther
    /\ assets = NoAssets
    /\ args = NoArgs
    /\ grpc = [hasPush |-> FALSE]
    /\ chain \in BlockStatuses
    /\ now = 0
    /\ startTime = 0
    /\ seen = {}
    /\ errors = 0
    /\ waitEnd = NoWaitEnd

\* client.getTransactionStatus(txHash): the gRPC call answers, or rejects
GetTransactionStatus ==
    /\ op = "none"
    /\ op' = "getTransactionStatus"
    /\ pc' = "done"
    /\ args' = [txHash |-> payload.txHash]
    /\ \E answered \in BOOLEAN :
        outcome' = IF answered THEN Returns(ConcordiumClient_getTransactionStatus(chain))
                   ELSE Throws("getBlockItemStatus")
    /\ UNCHANGED <<payload, requirements, config, version, lookup, waited, mockVars,
                   nodeVars, history, other, assets>>

\* client.verifyPayment(txHash, expected)
VerifyPayment ==
    /\ op = "none"
    /\ op' = "verifyPayment"
    /\ pc' = "done"
    /\ \E expected \in ExpectedPayments, answered \in BOOLEAN :
        /\ args' = [txHash |-> payload.txHash, expected |-> expected]
        /\ outcome' = IF answered
                      THEN Returns(verifyPayment(ConcordiumClient_getTransactionStatus(chain),
                                                 expected))
                      ELSE Throws("getBlockItemStatus")
    /\ UNCHANGED <<payload, requirements, config, version, lookup, waited, mockVars,
                   nodeVars, history, other, assets>>

NextPayment == GetTransactionStatus \/ VerifyPayment

SpecPayment == InitPayment /\ [][NextPayment]_vars

----------------------------------------------------------------------------
(* Asset strings (formatAssetString / parseAssetString of the token          *)
(* configuration module). Contract indices are non-negative integers, token  *)
(* ids are strings.                                                          *)

\* String(number) inside a template literal, for a non-negative integer
NumberToString(n) == toString(n)

\* formatAssetString(token)
formatAssetString(token) ==
    NumberToString(token.contractIndex) \o <<":">>
        \o NumberToString(token.contractSubindex) \o <<":">> \o token.tokenId

\* asset.split(":")
RECURSIVE Split(_)
Split(s) ==
    IF \A i \in DOMAIN s : s[i] # ":" THEN <<s>>
    ELSE LET first == CHOOSE i \in DOMAIN s :
                          s[i] = ":" /\ \A j \in 1..(i - 1) : s[j] # ":"
         IN  <<SubSeq(s, 1, first - 1)>> \o Split(SubSeq(s, first + 1, Len(s)))

\* parseInt(string, 10): an optional sign, then the leading digits; NaN when no digit leads
parseInt(s) == parseFloat(s)

NativeAsset ==
    [isNative |-> TRUE, contractIndex |-> Absent, contractSubindex |-> Absent,
     tokenId |-> Absent]

\* parseAssetString(asset)
parseAssetString(asset) ==
    IF asset = <<>> THEN NativeAsset
    ELSE LET parts == Split(asset) IN
         IF Len(parts) < 2 THEN NativeAsset
         ELSE [isNative |-> FALSE,
               contractIndex |-> Given(parseInt(parts[1])),
               contractSubindex |-> Given(parseInt(parts[2])),
               tokenId |-> Given(IF Len(parts) >= 3 /\ parts[3] # <<>>
                                 THEN parts[3] ELSE <<>>)]

(* Specification SpecAssetString: a token configuration is formatted and the  *)
(* string parsed back, or a string that arrived in a requirement is parsed.   *)

TokenIds == {<<>>, <<"a">>, <<"a", "b">>, <<":">>, <<"a", ":", "b">>, <<":", "a">>}

CIS2TokenConfigs == [contractIndex : {0, 9, 12}, contractSubindex : {0, 1}, tokenId : TokenIds]

NoToken == [contractIndex |-> 0, contractSubindex |-> 0, tokenId |-> <<>>]

AssetStrings ==
    {<<>>, <<"a">>, <<"9">>, <<"9", "0">>, <<"a", "b">>, <<":">>, <<"9", ":">>,
     <<"9", ":", "0">>, <<"9", ":", "0", ":">>, <<"9", ":", "0", ":", "a">>,
     <<"a", ":", "0", ":", "a">>}

TokenGiven(token) == [kind |-> "token", token |-> token, str |-> <<>>]
StringGiven(str) == [kind |-> "string", token |-> NoToken, str |-> str]

InitAssetString ==
    /\ payload \in {p \in Payloads : p.scheme = "exact" /\ p.network = "ccd:testnet"}
    /\ requirements \in {r \in Requirements : r.scheme = "exact" /\ r.asset = Undefined
                                               /\ r.amount = <<"2">>}
    /\ config \in {c \in Configs : c.requireFinalization}
    /\ pc = "idle"
    /\ op = "none"
    /\ version = 0
    /\ lookup = NotCalled
    /\ waited = NotCalled
    /\ outcome = NoOutcome
    /\ waiterPlan = NotCalled
    /\ calls = <<>>
    /\ history = <<>>
    /\ other = NoOther
    /\ assets = NoAssets
    /\ args \in {TokenGiven(t) : t \in CIS2TokenConfigs} \cup {StringGiven(a) : a \in AssetStrings}
    /\ NodeUnused

\* formatAssetString(token)
FormatAssetString ==
    /\ op = "none"
    /\ args.kind = "token"
    /\ op' = "formatAssetString"
    /\ outcome' = Returns(formatAssetString(args.token))
    /\ UNCHANGED <<payload, requirements, config, pc, version, lookup, waited, mockVars,
                   nodeVars, history, other, serverVars>>

\* parseAssetString(asset), of the string just formatted or of the string given
ParseAssetString ==
    /\ \/ op = "formatAssetString" /\ outcome' = Returns(parseAssetString(outcome.value))
       \/ op = "none" /\ args.kind = "string"
            /\ outcome' = Returns(parseAssetString(args.str))
    /\ op' = "parseAssetString"
    /\ pc' = "done"
    /\ UNCHANGED <<payload, requirements, config, version, lookup, waited, mockVars,
                   nodeVars, history, other, serverVars>>

NextAssetString == FormatAssetString \/ ParseAssetString

SpecAssetString == InitAssetString /\ [][NextAssetString]_vars

----------------------------------------------------------------------------
(* The matcher's ten checks as the specification lists them (section 4.2),    *)
(* stated on the inputs alone; the claims below compare them with what the    *)
(* facilitators returned.                                                     *)

\* absent or empty asset is the native asset
NativeNormal(a) == IF a = Undefined \/ a = <<>> THEN <<>> ELSE a

IsDecimal(s) == s # Undefined /\ \A i \in DOMAIN s : s[i] \in Digits

Present(s) == s # Undefined /\ s # <<>>

CheckFails(n, p, r, answer, cfg) ==
    LET snap == answer.info IN
    CASE n = 1  -> p.scheme # "exact" \/ r.scheme # "exact"
      [] n = 2  -> p.network # r.network
      [] n = 3  -> answer.kind = "null"
      [] n = 4  -> snap.status = "failed"
      [] n = 5  -> snap.status = "pending"
      [] n = 6  -> cfg.requireFinalization /\ snap.status # "finalized"
      [] n = 7  -> Present(snap.sender) /\ toLowerCase(snap.sender) # toLowerCase(p.sender)
      [] n = 8  -> Present(snap.recipient)
                   /\ toLowerCase(snap.recipient) # toLowerCase(r.payTo)
      [] n = 9  -> Present(snap.amount)
                   /\ DecimalValue(snap.amount) < DecimalValue(r.amount)
      [] n = 10 -> NativeNormal(snap.asset) # NativeNormal(r.asset)

ReasonOf(n) ==
    CASE n = 1  -> "unsupported_scheme"
      [] n = 2  -> "network_mismatch"
      [] n = 3  -> "transaction_not_found"
      [] n = 4  -> "transaction_failed"
      [] n = 5  -> "transaction_pending"
      [] n = 6  -> "transaction_not_finalized"
      [] n = 7  -> "sender_mismatch"
      [] n = 8  -> "recipient_mismatch"
      [] n = 9  -> "insufficient_amount"
      [] n = 10 -> "asset_mismatch"

\* the checks that fail, cut at the first one that ends the evaluation
FailingChecks(p, r, answer, cfg) ==
    IF CheckFails(1, p, r, answer, cfg) THEN {1}
    ELSE IF CheckFails(2, p, r, answer, cfg) THEN {2}
    ELSE IF CheckFails(3, p, r, answer, cfg) THEN {3}
    ELSE {n \in 4..10 : CheckFails(n, p, r, answer, cfg)}

Least(S) == CHOOSE n \in S : \A m \in S : n <= m

FirstFailure(p, r, answer, cfg) ==
    LET F == FailingChecks(p, r, answer, cfg) IN
    IF F = {} THEN "undefined" ELSE ReasonOf(Least(F))

VerifyDone == pc = "done" /\ op = "verify"

\* the lookup did not fail and the amounts are decimal strings
WellFormed ==
    /\ lookup.kind # "throw"
    /\ IsDecimal(requirements.amount)
    /\ lookup.kind = "info" /\ lookup.info.amount # Undefined
         => IsDecimal(lookup.info.amount)

ReasonTags ==
    {"unsupported_scheme", "network_mismatch", "transaction_lookup_failed",
     "transaction_not_found", "transaction_failed", "transaction_pending",
     "transaction_not_finalized", "sender_mismatch", "recipient_mismatch",
     "insufficient_amount", "asset_mismatch", "finalization_timeout",
     "finalization_failed"}

----------------------------------------------------------------------------
(* Claims on the matcher *)

\* C1: for every requirement, claim and snapshot (or absent snapshot), the V2
\* facilitator's verify returns the reason of the first failing check of the fixed
\* order, and isValid = true with no reason exactly when no check fails.
C1_FirstFailingCheck ==
    (VerifyDone /\ version = 2 /\ WellFormed) =>
        /\ outcome.kind = "return"
        /\ outcome.invalidReason = FirstFailure(payload, requirements, lookup, config)
        /\ outcome.isValid <=> FailingChecks(payload, requirements, lookup, config) = {}

\* C7: no input and no node-client answer makes verify throw or reject: the caller
\* always receives a structured outcome that is valid or carries a defined reason tag.
C7_AlwaysStructuredOutcome ==
    pc = "done" =>
        /\ outcome.kind = "return"
        /\ outcome.isValid \/ outcome.invalidReason \in ReasonTags

\* C8: with every earlier check passing, verify's asset check passes exactly when the
\* requirement's and the snapshot's assets are equal after absent and empty are both
\* read as the native asset; every other pair is rejected with asset_mismatch.
C8_AssetNormalisedBothSides ==
    (VerifyDone /\ lookup.kind = "info" /\ outcome.kind = "return"
       /\ outcome.invalidReason \in {"undefined", "asset_mismatch"}) =>
        /\ outcome.isValid <=>
             NativeNormal(requirements.asset) = NativeNormal(lookup.info.asset)
        /\ ~outcome.isValid => outcome.invalidReason = "asset_mismatch"

\* C9 as stated: in V2 and in V1, a snapshot that carries no amount is never rejected
\* with insufficient_amount.
C9_AmountCheckedOnlyWhenPresent ==
    (VerifyDone /\ lookup.kind = "info" /\ lookup.info.amount = Undefined) =>
        outcome.invalidReason # "insufficient_amount"

OtherChecksPass ==
    /\ lookup.kind = "info"
    /\ \A n \in (1..10) \ {9} : ~CheckFails(n, payload, requirements, lookup, config)

\* C9, amended: in the V2 facilitator's verify a snapshot that carries no amount (absent
\* or empty) is never rejected with insufficient_amount, and is valid when every other
\* check passes; the V1 facilitator's verify rejects it with insufficient_amount once
\* checks 1 to 8 have passed.
C9_AmountSkippedByV2RejectedByV1 ==
    (VerifyDone /\ lookup.kind = "info" /\ ~Present(lookup.info.amount)) =>
        /\ version = 2 => outcome.invalidReason # "insufficient_amount"
        /\ version = 2 /\ OtherChecksPass => outcome = Valid(payload)
        /\ (version = 1
              /\ \A n \in 1..8 : ~CheckFails(n, payload, requirements, lookup, config))
             => outcome = Invalid("insufficient_amount", payload)

\* V2 has accepted a snapshot with sender and recipient but no amount field
C9_Witness ==
    /\ VerifyDone /\ version = 2 /\ OtherChecksPass
    /\ lookup.info.amount = Undefined
    /\ Present(lookup.info.sender) /\ Present(lookup.info.recipient)
    /\ outcome.isValid

CasePairs == {{"A", "a"}, {"B", "b"}, {"C", "c"}, {"D", "d"}}

\* the two addresses are the same up to the case of their letters
SameIgnoringCase(a, b) ==
    /\ Len(a) = Len(b)
    /\ \A i \in DOMAIN a : a[i] = b[i] \/ {a[i], b[i]} \in CasePairs

\* checks 1 to 6 pass: verify has reached the comparison of sender and recipient
ReachesAddressChecks ==
    /\ lookup.kind = "info"
    /\ \A n \in 1..6 : ~CheckFails(n, payload, requirements, lookup, config)

\* C11: verify compares the snapshot's sender with the claimed sender, and the
\* snapshot's recipient with the required recipient, ignoring letter case and only when
\* the snapshot field is present: a differing sender gives sender_mismatch, else a
\* differing recipient gives recipient_mismatch, and addresses equal up to case or an
\* absent or empty snapshot field give neither.
C11_AddressesComparedIgnoringCase ==
    (VerifyDone /\ ReachesAddressChecks) =>
        LET snap == lookup.info
            senderDiffers == Present(snap.sender)
                               /\ ~SameIgnoringCase(snap.sender, payload.sender)
            recipientDiffers == Present(snap.recipient)
                                  /\ ~SameIgnoringCase(snap.recipient, requirements.payTo)
        IN  IF senderDiffers THEN outcome = Invalid("sender_mismatch", payload)
            ELSE IF recipientDiffers THEN outcome = Invalid("recipient_mismatch", payload)
            ELSE outcome.invalidReason \notin {"sender_mismatch", "recipient_mismatch"}

\* a snapshot whose sender and recipient differ from the claimed ones only in letter
\* case was accepted
C11_Witness ==
    /\ VerifyDone /\ ReachesAddressChecks
    /\ Present(lookup.info.sender) /\ lookup.info.sender # payload.sender
    /\ SameIgnoringCase(lookup.info.sender, payload.sender)
    /\ Present(lookup.info.recipient) /\ lookup.info.recipient # requirements.payTo
    /\ SameIgnoringCase(lookup.info.recipient, requirements.payTo)
    /\ outcome.isValid

\* C12: for every snapshot whose status is failed, the scheme and network checks having
\* passed, verify returns isValid = false with reason transaction_failed, whatever the
\* snapshot's sender, recipient, amount and asset and whatever the configuration.
C12_FailedSnapshotIsRejected ==
    (VerifyDone /\ AsksLedger(payload, requirements)
       /\ lookup.kind = "info" /\ lookup.info.status = "failed") =>
        outcome = Invalid("transaction_failed", payload)

\* a failed snapshot that would also fail the sender check and whose amount is not a
\* decimal string was rejected as failed
C12_Witness ==
    /\ VerifyDone /\ AsksLedger(payload, requirements)
    /\ lookup.kind = "info" /\ lookup.info.status = "failed"
    /\ CheckFails(7, payload, requirements, lookup, config)
    /\ Present(lookup.info.amount) /\ ~IsDecimal(lookup.info.amount)
    /\ outcome.invalidReason = "transaction_failed"

\* C10: with all other checks passing, a snapshot amount equal to or greater than the
\* required amount (as integers) yields isValid = true, and a strictly smaller one
\* yields insufficient_amount.
C10_AmountAtLeastRequired ==
    (VerifyDone /\ version = 2 /\ OtherChecksPass /\ Present(lookup.info.amount)
       /\ IsDecimal(lookup.info.amount) /\ IsDecimal(requirements.amount)) =>
        IF DecimalValue(lookup.info.amount) >= DecimalValue(requirements.amount)
        THEN outcome = Valid(payload)
        ELSE outcome = Invalid("insufficient_amount", payload)

\* an overpayment whose decimal string is longer than the required one was accepted,
\* and the state is one C10 speaks about
C10_Witness ==
    /\ VerifyDone /\ version = 2 /\ OtherChecksPass
    /\ IsDecimal(lookup.info.amount) /\ IsDecimal(requirements.amount)
    /\ Present(lookup.info.sender) /\ Present(lookup.info.recipient)
    /\ Len(lookup.info.amount) > Len(requirements.amount)
    /\ DecimalValue(lookup.info.amount) > DecimalValue(requirements.amount)
    /\ outcome.isValid

----------------------------------------------------------------------------
(* Claims on settle over the stubbed node client *)

SettleDone == pc = "done" /\ op = "settle"

\* C2: with requireFinalization = true, when the lookup made by settle reports the
\* transaction as committed (every other check passing) and the finality waiter would
\* resolve to a finalized snapshot, settle returns success = true.
C2_SettleWaitsForFinality ==
    (SettleDone /\ config.requireFinalization
       /\ lookup.kind = "info" /\ lookup.info.status = "committed"
       /\ \A n \in (1..10) \ {6} : ~CheckFails(n, payload, requirements, lookup, config)
       /\ waiterPlan.kind = "info" /\ waiterPlan.info.status = "finalized") =>
        outcome.kind = "return" /\ outcome.success

\* what the verify that settle ran returned, recomputed from the lookup it made
VerifyResultOfSettle == verifyOf(version, payload, requirements, lookup, config)

GetStatusCall == [fn |-> "getTransactionStatus", txHash |-> payload.txHash, timeoutMs |-> 0]

WaitForFinalizationCall ==
    [fn |-> "waitForFinalization", txHash |-> payload.txHash,
     timeoutMs |-> config.finalizationTimeoutMs]

\* C13: settle first runs verify; when verify is invalid, settle returns success =
\* false with errorReason equal to verify's invalidReason and never calls
\* waitForFinalization: the node client saw verify's single lookup, or nothing when the
\* scheme or network check failed.
C13_InvalidVerifyEndsSettle ==
    (SettleDone /\ VerifyResultOfSettle.kind = "return" /\ ~VerifyResultOfSettle.isValid) =>
        /\ outcome = SettleFailure(VerifyResultOfSettle.invalidReason, payload)
        /\ calls = IF AsksLedger(payload, requirements) THEN <<GetStatusCall>> ELSE <<>>
        /\ waited = NotCalled

\* finality is required and the waiter would have answered finalized, yet settle ended
\* on verify's sender_mismatch after the one lookup
C13_Witness ==
    /\ SettleDone /\ config.requireFinalization
    /\ waiterPlan.kind = "info" /\ waiterPlan.info.status = "finalized"
    /\ lookup.kind = "info" /\ lookup.info.status = "finalized"
    /\ VerifyResultOfSettle = Invalid("sender_mismatch", payload)
    /\ outcome.errorReason = "sender_mismatch"
    /\ calls = <<GetStatusCall>>

\* C14: with requireFinalization = true and a valid verify, settle calls
\* waitForFinalization once, with the claim's txHash and the configured timeout, and
\* returns success = false with errorReason finalization_timeout whenever the waiter
\* answers null or a snapshot whose status is not finalized (failed included).
C14_UnfinalizedWaitIsTimeout ==
    (SettleDone /\ config.requireFinalization /\ VerifyResultOfSettle = Valid(payload)) =>
        /\ calls = <<GetStatusCall, WaitForFinalizationCall>>
        /\ (waited.kind = "null"
              \/ (waited.kind = "info" /\ waited.info.status # "finalized"))
             => outcome = SettleFailure("finalization_timeout", payload)

\* the waiter answered a failed snapshot and settle reported finalization_timeout
C14_Witness ==
    /\ SettleDone /\ config.requireFinalization /\ VerifyResultOfSettle = Valid(payload)
    /\ waited.kind = "info" /\ waited.info.status = "failed"
    /\ outcome.errorReason = "finalization_timeout"
    /\ Len(calls) = 2

\* C15: with requireFinalization = true and a valid verify, when waitForFinalization
\* throws, settle returns success = false with errorReason finalization_failed and the
\* error does not leave settle.
C15_WaitErrorIsFinalizationFailed ==
    (SettleDone /\ config.requireFinalization /\ VerifyResultOfSettle = Valid(payload)
       /\ waited.kind = "throw") =>
        outcome = SettleFailure("finalization_failed", payload)

\* the waiter threw after a valid verify of the V1 facilitator
C15_Witness ==
    /\ SettleDone /\ version = 1 /\ config.requireFinalization
    /\ VerifyResultOfSettle = Valid(payload)
    /\ waited = Threw
    /\ outcome.kind = "return" /\ ~outcome.success

----------------------------------------------------------------------------
(* Claims on the facilitator over the gRPC-backed node client *)

\* C16: with requireFinalization = false, verify accepts a committed snapshot that
\* passes the other checks (the V1 facilitator asks for an amount on the snapshot), and
\* settle returns success = true right after a valid verify: it never enters the wait
\* and waitForFinalization is never called.
C16_NoFinalityRequiredSettlesAtOnce ==
    ~config.requireFinalization =>
        /\ (pc = "done" /\ op \in {"verify", "settle"}
              /\ lookup.kind = "info" /\ lookup.info.status = "committed"
              /\ \A n \in 1..10 : ~CheckFails(n, payload, requirements, lookup, config)
              /\ (version = 1 => Present(lookup.info.amount)))
             => IF op = "verify" THEN outcome = Valid(payload)
                ELSE outcome = SettleSuccess(payload)
        /\ op = "settle" =>
              /\ pc \in {"verify_lookup", "done"}
              /\ waited = NotCalled /\ waitEnd = NoWaitEnd
              /\ \A i \in DOMAIN calls : calls[i].fn # "waitForFinalization"
        /\ (SettleDone /\ VerifyResultOfSettle = Valid(payload))
             => outcome = SettleSuccess(payload) /\ calls = <<GetStatusCall>>

\* settle of the V2 facilitator succeeded on a committed transfer without a wait
C16_Witness ==
    /\ SettleDone /\ version = 2 /\ ~config.requireFinalization
    /\ lookup.kind = "info" /\ lookup.info.status = "committed"
    /\ Present(lookup.info.recipient) /\ Present(lookup.info.amount)
    /\ outcome.success
    /\ calls = <<GetStatusCall>>

\* C17: verify makes at most one ledger lookup (exactly one when the scheme and
\* network checks pass, none otherwise) and never calls or enters waitForFinalization;
\* when finality is required and the snapshot it looked up is committed, it returns
\* transaction_not_finalized at once.
C17_VerifyLooksUpOnceAndNeverWaits ==
    op = "verify" =>
        /\ pc \in {"verify_lookup", "done"}
        /\ waited = NotCalled /\ waitEnd = NoWaitEnd
        /\ calls = IF AsksLedger(payload, requirements) THEN <<GetStatusCall>> ELSE <<>>
        /\ pc = "done" =>
              /\ IF AsksLedger(payload, requirements)
                 THEN Cardinality(seen) = 1 /\ errors <= 1
                 ELSE lookup = NotCalled /\ seen = {} /\ errors = 0
              /\ (config.requireFinalization /\ lookup.kind = "info"
                    /\ lookup.info.status = "committed")
                   => outcome = Invalid("transaction_not_finalized", payload)

\* verify met a committed transfer while finality is required and returned
\* transaction_not_finalized after its one lookup
C17_Witness ==
    /\ VerifyDone /\ config.requireFinalization
    /\ lookup.kind = "info" /\ lookup.info.status = "committed"
    /\ Present(lookup.info.recipient)
    /\ outcome.invalidReason = "transaction_not_finalized"
    /\ calls = <<GetStatusCall>>
    /\ seen = {"committed"}

\* C18: waitForFinalization in polling mode returns no later than the configured
\* timeout after it was called, up to a tolerance of a quarter of the timeout, for
\* every timeout (those shorter than the poll interval included), when every lookup
\* reports the transaction as committed.
C18_PollingWaitReturnsWithinTimeout ==
    (pc = "done" /\ op = "waitForFinalization" /\ ~grpc.hasPush
       /\ seen = {"committed"} /\ errors = 0) =>
        4 * waitEnd.elapsed <= 5 * config.finalizationTimeoutMs

\* the lifecycle state the raw status stands for when the outcome is not a reject
LifecycleOf(rawStatus) ==
    CASE rawStatus = "received"  -> "pending"
      [] rawStatus = "committed" -> "committed"
      [] rawStatus = "finalized" -> "finalized"

\* verify has returned after a lookup that the node answered with its record; the
\* record does not change once the call is done
LookedUpRecord ==
    VerifyDone /\ AsksLedger(payload, requirements) /\ errors = 0 /\ chain # NoChain

\* C19: the node client maps a raw block-item status to failed whenever the outcome
\* summary is a reject, whatever the raw status, and then carries the reject reason as
\* error; otherwise received maps to pending, committed to committed and finalized to
\* finalized, with no error.
C19_RejectAlwaysMapsToFailed ==
    LookedUpRecord =>
        /\ lookup.kind = "info"
        /\ IF chain.summary = "reject"
           THEN lookup.info.status = "failed" /\ lookup.info.error = RejectReason
           ELSE lookup.info.status = LifecycleOf(chain.status)
                  /\ lookup.info.error = Undefined

\* a finalized record whose summary is a reject was reported as failed with its reason
C19_Witness ==
    /\ LookedUpRecord
    /\ chain.status = "finalized" /\ chain.summary = "reject"
    /\ lookup.info.status = "failed" /\ lookup.info.error = RejectReason

\* C20: getTransactionStatus of the node client built by createConcordiumNodeClient
\* never throws: it answers null both when the node has no record of the transaction
\* and when the gRPC call fails with an error.
C20_LookupNeverThrows ==
    /\ lookup.kind # "throw"
    /\ errors > 0 => "null" \in seen
    /\ (VerifyDone /\ AsksLedger(payload, requirements)
          /\ (errors > 0 \/ chain = NoChain))
         => lookup = Null /\ outcome.kind = "return"

\* the gRPC call failed although the node holds the transaction finalized, and the
\* lookup answered null
C20_Witness ==
    /\ VerifyDone /\ errors = 1
    /\ chain.status = "finalized" /\ chain.summary = "success"
    /\ lookup = Null

\* C3: with requireFinalization = true, when every lookup of a settle call reports the
\* transaction as committed (no transport error, every other check passing), settle
\* returns success = false with errorReason finalization_timeout.
C3_CommittedUntilTimeout ==
    (SettleDone /\ config.requireFinalization /\ AsksLedger(payload, requirements)
       /\ seen = {"committed"} /\ errors = 0
       /\ Present(lookup.info.sender) /\ Present(lookup.info.recipient)
       /\ \A n \in (1..10) \ {6} : ~CheckFails(n, payload, requirements, lookup, config)) =>
        /\ outcome.kind = "return"
        /\ ~outcome.success
        /\ outcome.errorReason = "finalization_timeout"

\* C4: waitForFinalization returns a snapshot whose status is finalized or failed, or
\* null; never a pending or committed snapshot.
C4_WaitReturnsTerminalOrAbsent ==
    (pc = "done" /\ waited.kind = "info") =>
        waited.info.status \in {"finalized", "failed"}

\* C5: a transport error on a lookup inside the polling loop does not end the wait:
\* when the node holds the transaction finalized and a lookup of the loop meets a
\* transport error before the timeout has elapsed, the loop retries, so that
\* waitForFinalization returns the finalized snapshot and a settle waiting on it succeeds.
C5_TransportErrorIsRetried ==
    (pc = "done" /\ waitEnd.cause = "error"
       /\ waitEnd.elapsed < config.finalizationTimeoutMs
       /\ chain.status = "finalized" /\ chain.summary = "success") =>
        /\ waited.kind = "info" /\ waited.info.status = "finalized"
        /\ op = "settle" => outcome.kind = "return" /\ outcome.success

\* C6: when the status lookup of verify meets a transport error, verify returns
\* isValid = false with reason transaction_lookup_failed.
C6_LookupFailureIsDistinct ==
    (VerifyDone /\ errors > 0) =>
        /\ outcome.kind = "return"
        /\ ~outcome.isValid
        /\ outcome.invalidReason = "transaction_lookup_failed"

----------------------------------------------------------------------------
(* Claims on calls made one after another *)

\* the ledger before the first call, the calls that have returned to their caller, and
\* the call that has just finished
Entries == IF pc = "done" THEN Append(history, Returned) ELSE history

\* the node's record when the call of entry j began: the record does not move between
\* the return of one call and the start of the next
ChainAtCall(j) == Entries[j - 1].chain

\* the record is a finalized, successful native transfer that meets the requirement
PaidAndFinalized(c) ==
    /\ c.status = "finalized" /\ c.summary = "success" /\ c.body = "transfer"
    /\ AsksLedger(payload, requirements)
    /\ requirements.asset = <<>>

C21_SameOutcome ==
    \A j, k \in 2..Len(Entries) :
        (j < k /\ Entries[j].op = "settle" /\ Entries[k].op = "settle"
           /\ ChainAtCall(j).status = "finalized"
           /\ Entries[j].errors = 0 /\ Entries[k].errors = 0) =>
            /\ Entries[k].outcome = Entries[j].outcome
            /\ PaidAndFinalized(ChainAtCall(j)) =>
                  /\ Entries[j].outcome.kind = "return"
                  /\ Entries[j].outcome.success
                  /\ Entries[j].outcome.transaction = payload.txHash

\* a step of a call (every one moves the call's position) leaves the node's record,
\* the gRPC client, the configuration and the call's arguments as they were
C21_CallStepReadsOnly ==
    pc' # pc => UNCHANGED <<chain, grpc, config, payload, requirements>>

TerminalStates == {"finalized", "failed"}

\* every terminal state a lookup of an earlier call reported is the only state the
\* lookups of a later call report (a lookup cut short by a transport error reports
\* none), and the lookups of one call never report two terminal states
C22_LaterCallsAgree ==
    /\ \A j, k \in 2..Len(Entries) : \A t \in Entries[j].seen \cap TerminalStates :
          j < k =>
            /\ Entries[k].seen \subseteq {t, "null"}
            /\ (Entries[k].errors = 0 /\ Entries[k].seen # {}) => Entries[k].seen = {t}
    /\ Cardinality(seen \cap TerminalStates) <= 1

\* whatever step is taken, the ledger's included, a lookup the node answers after it
\* reports the terminal state a lookup answered before it would have reported
C22_TerminalIsKept ==
    IsTerminal(getTransactionStatus(chain)) =>
        /\ getTransactionStatus(chain').kind = "info"
        /\ getTransactionStatus(chain').info.status
             = getTransactionStatus(chain).info.status

----------------------------------------------------------------------------
(* Claims on two calls in flight *)

\* the two calls, the running one and the suspended one
TwoCalls == {Locals(3 - other.id), other}

\* what a verify or settle call returns when it runs alone: a function of its own
\* arguments, of the configuration and of what the node answered to it
AloneOutcome(c) ==
    LET verifyResult == verifyOf(c.version, c.payload, c.requirements, c.lookup, config)
    IN  IF c.op = "verify" THEN verifyResult
        ELSE settle(c.payload, verifyResult, c.waited, config)

C23_OutcomeAsAlone ==
    \A c \in TwoCalls :
        /\ (c.pc = "done" /\ c.op \in {"verify", "settle"}) =>
              /\ c.outcome = AloneOutcome(c)
              /\ (c.errors = 0 /\ c.op = "verify") =>
                    c.lookup = getTransactionStatus(c.chain)
        /\ \A i \in DOMAIN c.calls : c.calls[i].txHash = c.payload.txHash

\* a step that is not a switch of the event loop leaves the locals of the suspended
\* call, the configuration and the gRPC client as they were
C23_NothingShared ==
    other'.id = other.id => UNCHANGED <<other, serverVars, config, grpc>>

FirstCallDone ==
    \/ other.id = 2 /\ pc = "done"
    \/ other.id = 1 /\ other.pc = "done"

\* C23: in every interleaving of two calls on one facilitator for different
\* transactions, each verify or settle call returns the outcome it returns when run
\* alone on the same answers of the node, no step of one call touches the other call's
\* state or the shared configuration, and the first call completes whatever the second
\* does, were it to stay suspended in waitForFinalization for ever.
C23_ConcurrentCallsIndependent ==
    /\ []C23_OutcomeAsAlone
    /\ [][C23_NothingShared]_vars
    /\ <>FirstCallDone

\* the first call, a settle, has returned its success while the second call is
\* suspended in the polling loop of waitForFinalization, its transaction not finalized
C23_Witness ==
    /\ other.id = 2 /\ pc = "done" /\ op = "settle" /\ outcome.success
    /\ other.op = "waitForFinalization" /\ other.pc = "poll_sleep"
    /\ other.chain.status # "finalized"
    /\ other.startTime < now

----------------------------------------------------------------------------
(* Claims on the responses and on the defaults *)

\* C24: every response returned by verify and by settle, valid or not, carries as
\* payer the sender asserted in the payload, not the sender the ledger reports, and
\* every settle response carries the payload's transaction hash.
C24_PayerIsClaimedSender ==
    (pc = "done" /\ op \in {"verify", "settle"} /\ outcome.kind = "return") =>
        /\ outcome.payer = payload.sender
        /\ op = "settle" => outcome.transaction = payload.txHash

\* verify has rejected a transaction whose sender on the ledger is written differently
\* from the claimed one, and the response names the claimed one
C24_Witness ==
    /\ VerifyDone /\ ~outcome.isValid
    /\ lookup.kind = "info" /\ Present(lookup.info.sender)
    /\ lookup.info.sender # payload.sender
    /\ outcome.payer = payload.sender

\* C25: a facilitator constructed without requireFinalization and without
\* finalizationTimeoutMs has requireFinalization = true and a timeout of 60000 ms:
\* its verify rejects a committed transaction with transaction_not_finalized and its
\* settle, after a valid verify, calls waitForFinalization(txHash, 60000).
C25_DefaultsRequireFinality ==
    /\ config = [requireFinalization |-> TRUE, finalizationTimeoutMs |-> 60000]
    /\ \A o \in Options :
          /\ o.requireFinalization = Absent => Construct(o).requireFinalization
          /\ o.finalizationTimeoutMs = Absent => Construct(o).finalizationTimeoutMs = 60000
    /\ (VerifyDone /\ lookup.kind = "info" /\ lookup.info.status = "committed")
         => outcome = Invalid("transaction_not_finalized", payload)
    /\ (SettleDone /\ VerifyResultOfSettle = Valid(payload))
         => calls = <<GetStatusCall,
                      [fn |-> "waitForFinalization", txHash |-> payload.txHash,
                       timeoutMs |-> 60000]>>

\* settle of the facilitator built from a node client alone has waited with the
\* default timeout and succeeded
C25_Witness ==
    /\ SettleDone /\ outcome.success
    /\ Len(calls) = 2 /\ calls[2].fn = "waitForFinalization"
    /\ calls[2].timeoutMs = 60000

\* the call of the state, made instead with block hash bh in the payload and given
\* the same answers by the node client: its response and its calls on the node client
RunWithHint(bh) ==
    LET p == [payload EXCEPT !.blockHash = bh]
        answer == IF AsksLedger(p, requirements) THEN lookup ELSE NotCalled
        verifyResult == verifyOf(version, p, requirements, answer, config)
    IN  IF op = "verify"
        THEN [outcome |-> verifyResult, calls |-> LookupCall(p, requirements)]
        ELSE [outcome |-> settle(p, verifyResult, waiterPlan, config),
              calls |-> LookupCall(p, requirements) \o WaitCall(p, verifyResult, config)]

\* C26: the payload's optional blockHash never influences the result: a verify or
\* settle run that differs only in the blockHash, the node client answering the same,
\* returns the same response after the same calls on the node client.
C26_BlockHashIsIgnored ==
    pc = "done" =>
        \A bh \in BlockHashes :
            /\ (lookup = NotCalled) = ~AsksLedger([payload EXCEPT !.blockHash = bh],
                                                  requirements)
            /\ RunWithHint(bh) = [outcome |-> outcome, calls |-> calls]

\* a settle whose payload names a block hash has looked the transaction up, waited and
\* succeeded, as the run without a block hash does
C26_Witness ==
    /\ SettleDone /\ payload.blockHash # Undefined
    /\ lookup.kind = "info" /\ Len(calls) = 2
    /\ outcome.success
    /\ RunWithHint(Undefined).outcome.success

----------------------------------------------------------------------------
(* Claims on the server scheme's asset registry *)

\* the asset of the last registration made for this network and this symbol, compared
\* without regard to letter case; a miss when there is none
LatestRegistration(h, network, symbol) ==
    LET made == {i \in DOMAIN h : /\ h[i].network = network
                                  /\ toLowerCase(h[i].symbol) = toLowerCase(symbol)}
    IN  IF made = {} THEN UndefinedAsset
        ELSE h[CHOOSE i \in made : \A j \in made : j <= i].asset

\* the registration a lookup is to find: the network's own, else the wildcard's
RegisteredFor(h, network, symbol) ==
    IF LatestRegistration(h, network, symbol) # UndefinedAsset
    THEN LatestRegistration(h, network, symbol)
    ELSE LatestRegistration(h, WildcardNetwork, symbol)

\* the registry the registerAsset calls alone leave behind
RECURSIVE Replay(_)
Replay(h) ==
    IF h = <<>> THEN NoAssets
    ELSE LET last == h[Len(h)] IN
         registerAsset(Replay(SubSeq(h, 1, Len(h) - 1)), last.network, last.symbol,
                       last.asset)

\* "contractIndex:contractSubindex:tokenId"
TokenString(asset) ==
    asset.contractIndex \o <<":">> \o asset.contractSubindex \o <<":">> \o asset.tokenId

\* the call was parsePriceWithExtra with a string or number price
ResolutionMade == op = "parsePriceWithExtra" /\ args.price.type # "object"

UsdPrice == args.price.type = "string" /\ StartsWithDollar(args.price.str)

\* a price that is a number: not NaN, not negative
PriceIsANumber ==
    IF args.price.type = "number" THEN args.price.num >= 0
    ELSE /\ args.price.str # <<>>
         /\ \A i \in DOMAIN args.price.str : args.price.str[i] \in Digits

\* extra.asset is absent or empty
NoAssetAsked == ~JsTruthy(ExtraAsset(args.extra))

CcdAsked ==
    /\ ExtraAsset(args.extra).type = "string"
    /\ toLowerCase(ExtraAsset(args.extra).str) = <<"c", "c", "d">>

\* extra.asset is a symbol other than CCD
SymbolAsked ==
    /\ ExtraAsset(args.extra).type = "string"
    /\ ExtraAsset(args.extra).str # <<>>
    /\ ~CcdAsked

AskedRegistration == RegisteredFor(history, args.network, ExtraAsset(args.extra).str)

ResolvesTo(assetString) == outcome.kind = "return" /\ outcome.value.asset = assetString

\* the clauses of the resolution table that hold whatever a registered asset's
\* contract index is
C27_CommonClauses ==
    /\ ResolutionMade /\ UsdPrice => outcome.kind = "throw"
    /\ ResolutionMade /\ PriceIsANumber /\ (NoAssetAsked \/ CcdAsked) => ResolvesTo(<<>>)
    /\ ResolutionMade /\ SymbolAsked /\ AskedRegistration = UndefinedAsset
           => outcome.kind = "throw"
    /\ op = "parsePriceWithExtra" /\ outcome.kind = "throw" => assets = Replay(history)

Concerns(registration, network, symbol) ==
    /\ registration.network \in {network, WildcardNetwork}
    /\ toLowerCase(registration.symbol) = toLowerCase(symbol)

C28_ReturnsLatestRegistration ==
    op = "getAsset" => outcome = Returns(RegisteredFor(history, args.network, args.symbol))

C28_OtherRegistrationsChangeNothing ==
    \A network \in AskedNetworks, symbol \in AskedSymbols :
        /\ history' # history
        /\ ~Concerns(history'[Len(history')], network, symbol)
        => getAsset(assets', network, symbol) = getAsset(assets, network, symbol)

\* C28: after any sequence of registerAsset calls, getAsset(network, symbol) returns the
\* asset registered last for that very network and that symbol in any letter case; if
\* there is none, the one registered last for 'ccd:*' and that symbol; otherwise
\* undefined. A registration for another network or another symbol leaves the result
\* of every lookup as it was.
C28_GetAssetFindsLatestRegistration ==
    []C28_ReturnsLatestRegistration /\ [][C28_OtherRegistrationsChangeNothing]_vars

\* the testnet's symbol is registered twice, in lower case, with different assets, and
\* looked up in another letter case: the second asset is returned
C28_Witness ==
    /\ op = "getAsset"
    /\ args = [network |-> TestnetNetwork, symbol |-> Euro]
    /\ Len(history) = 2
    /\ history[1] = Registration(TestnetNetwork, EuroLower, EuroToken)
    /\ history[2] = Registration(TestnetNetwork, EuroLower, OtherToken)
    /\ outcome = Returns(OtherToken)

----------------------------------------------------------------------------
(* Claims on ConcordiumClient.verifyPayment *)

\* verifyPayment returned (its lookup was answered)
PaymentChecked == op = "verifyPayment" /\ outcome.kind = "return"

\* the node holds the transaction in a block: committed or finalized
InABlock == chain # NoBlockStatus /\ chain.status \in {"committed", "finalized"}

\* the transaction pays someone, and exactly the expected recipient
PaysExpectedRecipient ==
    /\ chain.transfer # Absent
    /\ chain.transfer[1].to # <<>>
    /\ chain.transfer[1].to = args.expected.recipient

PaysEnough ==
    /\ chain.transfer # Absent
    /\ chain.transfer[1].microCcdAmount >= args.expected.minAmount

\* the first reason, in the order pending, recipient_mismatch, insufficient_amount, whose
\* condition fails
FirstFailingReason ==
    IF ~InABlock THEN "pending"
    ELSE IF ~PaysExpectedRecipient THEN "recipient_mismatch"
    ELSE "insufficient_amount"

\* C29: verifyPayment, its lookup answered, returns valid = true exactly when the
\* looked-up status is committed or finalized, the recipient is present and equals the
\* expected recipient letter for letter, and the amount is at least minAmount; otherwise
\* it returns valid = false with the first failing reason in the order pending,
\* recipient_mismatch, insufficient_amount; a transaction the node does not know is
\* reported as pending.
C29_ValidExactlyWhenPaidElseFirstReason ==
    PaymentChecked =>
        /\ outcome.value.valid = (InABlock /\ PaysExpectedRecipient /\ PaysEnough)
        /\ ~outcome.value.valid => outcome.value.reason = FirstFailingReason
        /\ chain = NoBlockStatus => outcome.value.reason = "pending"

\* a committed transfer pays too little to an address that differs from the expected one
\* in letter case only: the recipient is the reason reported
C29_Witness ==
    /\ PaymentChecked
    /\ chain.status = "committed"
    /\ chain.transfer = Given(Transfer(CarolLower, 5))
    /\ args.expected = [recipient |-> Carol, minAmount |-> 10]
    /\ outcome.value.reason = "recipient_mismatch"

----------------------------------------------------------------------------
(* Claims on asset strings *)

\* the parse of a formatted token configuration
RoundTripMade == op = "parseAssetString" /\ args.kind = "token"

HasSeparator(s) == \E i \in DOMAIN s : s[i] = ":"

\* C30: asset strings round-trip: for every CIS-2 token configuration,
\* parseAssetString(formatAssetString(token)) is non-native and returns the token's
\* contractIndex, contractSubindex and tokenId; the empty string and any string without
\* a ':' separator parse as native.
C30_AssetStringRoundTrips ==
    /\ RoundTripMade =>
        /\ ~outcome.value.isNative
        /\ outcome.value.contractIndex = Given([nan |-> FALSE, val |-> args.token.contractIndex])
        /\ outcome.value.contractSubindex
               = Given([nan |-> FALSE, val |-> args.token.contractSubindex])
        /\ outcome.value.tokenId = Given(args.token.tokenId)
    /\ op = "parseAssetString" /\ args.kind = "string" /\ ~HasSeparator(args.str)
           => outcome.value.isNative

----------------------------------------------------------------------------
(* Claims on what a successful settle has observed *)

SettleSucceeded == SettleDone /\ outcome.kind = "return" /\ outcome.success

\* what settle observed last of the transaction: the waiter's answer when it waited,
\* else the answer to verify's lookup
LastObservation == IF waited # NotCalled THEN waited ELSE lookup

\* C31: settle returns success = true only if verify's lookup returned a snapshot that
\* verify accepted and, when requireFinalization is true, the finality waiter returned a
\* snapshot with status finalized; so the last observation of a successfully settled
\* transaction is never absent, pending or failed, and with requireFinalization = true
\* never committed.
C31_SuccessOnlyWhenVerifiedAndFinalized ==
    SettleSucceeded =>
        /\ lookup.kind = "info"
        /\ VerifyResultOfSettle = Valid(payload)
        /\ config.requireFinalization
               => waited.kind = "info" /\ waited.info.status = "finalized"
        /\ ~config.requireFinalization => waited = NotCalled
        /\ LastObservation.kind = "info"
        /\ LastObservation.info.status \notin {"pending", "failed"}
        /\ config.requireFinalization => LastObservation.info.status # "committed"

\* settle succeeded after the waiter answered finalized; without required finality the
\* same lookup alone would have sufficed
C31_Witness ==
    /\ SettleSucceeded
    /\ config.requireFinalization
    /\ lookup.kind = "info" /\ lookup.info.status = "finalized"
    /\ waited.kind = "info" /\ waited.info.status = "finalized"
    /\ Len(calls) = 2

----------------------------------------------------------------------------
(* Claims on the polling wait *)

\* waitForFinalization has returned from pollForFinalization
PollingWaitDone ==
    pc = "done" /\ waitEnd.cause \in {"terminal", "error", "no_record", "timeout"}

\* the node held the transaction finalized, its outcome a success, when the wait made its
\* last lookup, and the timeout had not elapsed when the wait returned
FinalInTime ==
    /\ chain.status = "finalized" /\ chain.summary = "success"
    /\ waitEnd.elapsed < config.finalizationTimeoutMs

\* C32: in polling mode a pending or committed observation ends the wait only as the
\* last known status once the timeout has elapsed; a wait ended by a lookup reporting
\* finalized or failed returns that snapshot; and a transaction that has reached
\* finality before the timeout is reported as finalized.
C32_FinalityInTimeIsReported ==
    PollingWaitDone =>
        /\ waited.kind = "info" /\ waited.info.status \in {"pending", "committed"}
               => /\ waitEnd.cause = "timeout"
                  /\ waitEnd.elapsed >= config.finalizationTimeoutMs
        /\ waitEnd.cause = "terminal"
               => waited.kind = "info" /\ waited.info.status \in {"finalized", "failed"}
        /\ FinalInTime => waited.kind = "info" /\ waited.info.status = "finalized"

----------------------------------------------------------------------------
(* Claims on the push-based wait *)

\* waitForFinalization has been called, by settle or on its own
WaitEntered == \E i \in DOMAIN calls : calls[i].fn = "waitForFinalization"

\* what waitForFinalization was called with
WaitArguments ==
    LET c == calls[CHOOSE i \in DOMAIN calls : calls[i].fn = "waitForFinalization"]
    IN  [txHash |-> c.txHash, timeoutMs |-> c.timeoutMs]

\* the arguments of the push calls made on the gRPC client, in order
PushCallsMade ==
    LET IsPush(c) == c.fn = "grpc.waitForTransactionFinalization"
        pushes == SelectSeq(calls, IsPush)
    IN  [i \in DOMAIN pushes |->
            [txHash |-> pushes[i].txHash, timeoutMs |-> pushes[i].timeoutMs]]

InPoll == {"poll_lookup", "poll_sleep", "poll_last"}

\* the push call is made exactly when the wait is entered on a client offering it, once,
\* with the wait's own txHash and timeout; a wait ended by the push call has made no lookup
\* and returns null or a finalized snapshot
C33_PushCallMade ==
    /\ PushCallsMade = IF grpc.hasPush /\ WaitEntered THEN <<WaitArguments>> ELSE <<>>
    /\ WaitEntered /\ grpc.hasPush
           => calls[Len(calls)].fn = "grpc.waitForTransactionFinalization"
              /\ calls[Len(calls) - 1].fn = "waitForFinalization"
    /\ ~grpc.hasPush => pc # "push"
    /\ (pc = "done" /\ waitEnd.cause = "push")
           => /\ grpc.hasPush
              /\ op = "waitForFinalization" => seen = {} /\ errors = 0
              /\ \/ waited = Null
                 \/ waited.kind = "info" /\ waited.info.status = "finalized"

\* a returning push call ends the wait without a lookup; polling begins only where the
\* push call is not offered or has thrown; the loop sleeps 2000 ms after each lookup that
\* does not end it
C33_PushElsePoll ==
    /\ (pc = "push" /\ pc' = "done")
           => /\ seen' = seen /\ errors' = errors
              /\ chain.status # "finalized" => waited' = Null
    /\ (pc \notin InPoll /\ pc' \in InPoll) => (~grpc.hasPush \/ pc = "push")
    /\ (pc \notin InPoll /\ pc' \notin InPoll /\ ~grpc.hasPush) => pc' # "push"
    /\ (pc = "poll_lookup" /\ pc' # pc) => pc' \in {"poll_sleep", "done"}
    /\ (pc = "poll_sleep" /\ pc' # pc)
           => /\ now' = now + 2000
              /\ pc' \in {"poll_lookup", "poll_last"}

\* C33: waitForFinalization calls the gRPC client's waitForTransactionFinalization with
\* its txHash and timeout when the client offers it, and makes no polling lookup when
\* that call returns (a null result is returned as null); where the capability is absent
\* or the push call throws it polls getTransactionStatus with a fixed 2000 ms sleep
\* between lookups.
C33_PushWhenOfferedElsePollEveryTwoSeconds ==
    []C33_PushCallMade /\ [][C33_PushElsePoll]_vars

\* a wait called on its own with a 5000 ms timeout has returned the finalized snapshot
\* of the push call, no lookup made
C33_Witness ==
    /\ pc = "done" /\ op = "waitForFinalization" /\ waitEnd.cause = "push"
    /\ PushCallsMade = <<[txHash |-> payload.txHash, timeoutMs |-> 5000]>>
    /\ waited.kind = "info" /\ waited.info.status = "finalized"
    /\ seen = {}

\* waitForFinalization called on its own has returned; it was called at 0 ms
WaitAloneDone == pc = "done" /\ op = "waitForFinalization"

\* C34: waitForFinalization returns to its caller no later than the one configured
\* timeout after it was called (up to a tolerance of a quarter of the timeout), however
\* long the lookups of the polling loop take and whether or not a push attempt failed
\* before polling started: the push attempt and the fallback polling together stay within
\* the timeout.
C34_WholeWaitWithinOneTimeout ==
    WaitAloneDone => 4 * now <= 5 * config.finalizationTimeoutMs

\* the push call has returned a finalized transaction to waitForFinalization
PushReturnedTransaction ==
    pc = "done" /\ waitEnd.cause = "push" /\ waited.kind = "info"

\* C35: when the push-based wait returns a finalized transaction whose summary outcome
\* is reject, waitForFinalization reports a snapshot with status failed, and settle
\* never returns success on a transaction the node holds as rejected.
C35_RejectionWinsOnPushPath ==
    /\ (PushReturnedTransaction /\ chain.summary = "reject")
           => waited.info.status = "failed"
    /\ SettleSucceeded => chain.summary # "reject"

----------------------------------------------------------------------------
(* Claims on contract-update transactions *)

\* the V2 verify has returned after a lookup the node answered with the record of a
\* contract-update transaction
ContractUpdateLookedUp ==
    /\ LookedUpRecord /\ version = 2
    /\ chain.summary # "none" /\ chain.body = "contractUpdate"

\* the status, sender and asset checks pass on the snapshot looked up
StatusSenderAssetPass ==
    \A n \in {4, 5, 6, 7, 10} : ~CheckFails(n, payload, requirements, lookup, config)

\* recipients and amounts a requirement may demand
DemandedPayTos == {Alice, Carol, <<>>}
DemandedAmounts == RequiredAmounts \cup {<<"9", "9">>}

----------------------------------------------------------------------------
(* Claims on a lookup of the polling loop that finds no record *)

\* the lookup awaited inside the polling loop resolves to null: the node holds no record
\* of the transaction, or the gRPC call failed and getTransactionStatus returned null
NullLookupInLoop ==
    /\ pc = "poll_lookup" /\ pc' # pc
    /\ chain.status = "null" \/ errors' # errors

\* the polling loop has ended on a lookup that returned null
EndedOnNullLookup == pc = "done" /\ waitEnd.cause \in {"no_record", "error"}

\* pollForFinalization returns null on that lookup, nothing but the lookup's own latency
\* having passed and no sleep or further lookup begun
C37_NullLookupReturnsAtOnce ==
    NullLookupInLoop =>
        /\ pc' = "done"
        /\ waited' = Null
        /\ waitEnd'.cause \in {"no_record", "error"}
        /\ now' - now \in Latencies
        /\ seen' = seen \cup {"null"}

C37_SettleReportsTimeout ==
    EndedOnNullLookup =>
        /\ waited = Null
        /\ op = "settle" => outcome = SettleFailure("finalization_timeout", payload)

\* C37: when a lookup inside the polling loop returns no record, pollForFinalization
\* returns null at once, without waiting out the remaining timeout and without a further
\* lookup, and a settle waiting on it returns success = false with errorReason
\* finalization_timeout.
C37_NoRecordEndsPollingAtOnce ==
    []C37_SettleReportsTimeout /\ [][C37_NullLookupReturnsAtOnce]_vars

\* a settle whose wait ended on the first lookup of the loop, at 0 ms of a 5000 ms timeout
C37_Witness ==
    /\ SettleDone /\ EndedOnNullLookup
    /\ config.finalizationTimeoutMs = 5000 /\ waitEnd.elapsed = 0
    /\ waited = Null
    /\ outcome = SettleFailure("finalization_timeout", payload)

----------------------------------------------------------------------------
(* Claims relating the two facilitators *)

\* what each facilitator's verify returns on the inputs of the call made
ResponseV1 == verifyV1(payload, requirements, lookup, config)
ResponseV2 == verify(payload, requirements, lookup, config)

\* the snapshot looked up carries a non-empty amount and an asset (the empty asset of
\* native CCD included)
CarriesAmountAndAsset ==
    /\ lookup.kind = "info"
    /\ Present(lookup.info.amount)
    /\ lookup.info.asset # Undefined

\* C38: on the same claim, requirement (V1 maxAmountRequired = V2 amount), snapshot and
\* configuration, whenever the V1 verify returns isValid = true so does the V2 verify,
\* and whenever the snapshot carries both an amount and an asset the two return the same
\* isValid and the same invalidReason.
C38_V1AcceptsOnlyWhatV2Accepts ==
    VerifyDone =>
        /\ outcome = IF version = 1 THEN ResponseV1 ELSE ResponseV2
        /\ ResponseV1.isValid => ResponseV2.isValid
        /\ CarriesAmountAndAsset
               => /\ ResponseV1.kind = ResponseV2.kind
                  /\ ResponseV1.isValid = ResponseV2.isValid
                  /\ ResponseV1.invalidReason = ResponseV2.invalidReason

\* the V1 verify has accepted a snapshot carrying amount and asset, and so does the V2
C38_Witness ==
    /\ VerifyDone /\ version = 1
    /\ CarriesAmountAndAsset
    /\ outcome = Valid(payload)
    /\ ResponseV2 = Valid(payload)

====
